---- MODULE Spec2Model ----
(***************************************************************************)
(* A model of the MessagingHub of waelio-messaging                         *)
(* (src/dist/MessagingHub.js): the connection registry, the switch over    *)
(* inbound frame types, the two-party rooms and the in-memory fallback     *)
(* store.  The hub is constructed without a mongoURI, so the store is the  *)
(* in-memory one.  Node's event loop runs one handler at a time, so every  *)
(* handler is one atomic action.                                           *)
(***************************************************************************)
EXTENDS Integers, Sequences, FiniteSets, Bags, TLC

\* ------------------------------------------------------------------ bounds
\* Number of transport connections accepted over a run; also the size of
\* the pool the identity generator draws from.
MaxConnections == 3
\* Number of store inserts in a run of the hub specification.
MaxInserts == 1
\* Number of store inserts in a run of the store specification.
MaxStoreInserts == 11
\* Number of get-history queries pending at once in the durable specification.
MaxFinds == 2
\* Number of shutdown() calls suspended at once in the shutdown specification.
MaxSuspended == 2
\* Number of routed messages in a run of the order specification.
MaxRoutes == 3
\* Number of typing signals in a run of the order specification.
MaxSignals == 1

\* ------------------------------------------------------- program constants
IN_MEMORY_HISTORY_LIMIT == 10
DB_HISTORY_LIMIT == 100

\* --------------------------------------------------------------- universes
\* Identities (uuid strings), ordered as JavaScript orders the strings.  They
\* are kept apart from the socket numbers.
Ids == (MaxConnections + 1)..(2 * MaxConnections)
\* A value of `to` / `with` that is missing from the frame.
Absent == 0
\* Values a client can put in `to` / `with`: any identity, or nothing.
Targets == Ids \cup {Absent}
\* WebSocket objects, numbered in the order the connections arrive.
Sockets == 1..MaxConnections
\* The result of a lookup that finds nothing (undefined).
NoSocket == 0
\* ws.roomId = null
NoRoom == << >>
Payloads == {"p", "q"}
\* A `type` no case of the switch matches.
UnknownTypes == {"ping"}

VARIABLES
    clients,           \* this.clients: the Map, as its entries in insertion order
    ws,                \* the WebSocket objects: ws[w].clientId, ws[w].roomId
    open,              \* sockets whose transport is open (events can still fire)
    inMemoryMessages,  \* the array of the in-memory store
    now,               \* the clock behind `new Date()`
    sent,              \* frames sent while handling the last event, in send order
    lastEvent,         \* the event handled last
    lastRoster,        \* per open socket, `users` of the last user-list frame sent to it
    firstFrame,        \* per socket, the first frame ever sent to it
    inserted,          \* every record handed to insertOne, in order
    effect             \* what the last handler changed: `changed` names the parts
                       \* of the state that differ, `inserts` counts stored records
VARIABLES
    mongoClient,       \* this.mongoClient: "null", "connected" to the database, or
                       \* "unconnected" (set, but connect() failed)
    collection,        \* the documents of the `messages` collection of the database
    pendingInserts,    \* records whose insertOne promise has not settled
    pendingFinds       \* per socket, its get-history queries that have not settled
VARIABLES
    accepting,         \* this.wss is open: connection events can fire
    awaiting,          \* shutdown() calls suspended at `await this.mongoClient.close()`
    sendCallbacks,     \* per socket, callbacks of shutdown's send that have not run
    closeCalls         \* per socket, the close(1000, 'Server Shutdown') calls made
VARIABLES
    outbox,            \* per socket, the frames sent to it that are still in flight
    received           \* per socket, the frames its client has received, in order

vars == <<clients, ws, open, inMemoryMessages, now, sent, lastEvent,
          lastRoster, firstFrame, inserted, effect,
          mongoClient, collection, pendingInserts, pendingFinds,
          accepting, awaiting, sendCallbacks, closeCalls, outbox, received>>

\* ------------------------------------------------------------- Map helpers
\* Array.from(this.clients.keys())
MapKeys(m) == [i \in 1..Len(m) |-> m[i].key]
\* Array.from(this.clients.values())
MapValues(m) == [i \in 1..Len(m) |-> m[i].val]
KeySet(m) == {m[i].key : i \in 1..Len(m)}
ValueSet(m) == {m[i].val : i \in 1..Len(m)}
MapHas(m, k) == k \in KeySet(m)
\* this.clients.get(k); undefined is NoSocket
MapGet(m, k) ==
    IF MapHas(m, k)
    THEN LET i == CHOOSE j \in 1..Len(m) : m[j].key = k IN m[i].val
    ELSE NoSocket
\* this.clients.set(k, v): an existing key keeps its position
MapSet(m, k, v) ==
    IF MapHas(m, k)
    THEN [i \in 1..Len(m) |-> IF m[i].key = k THEN [key |-> k, val |-> v] ELSE m[i]]
    ELSE Append(m, [key |-> k, val |-> v])
\* this.clients.delete(k)
MapDelete(m, k) == SelectSeq(m, LAMBDA e : e.key # k)

\* ------------------------------------------------------------------ frames
Frame(to, f) == [to |-> to, frame |-> f]
RegisterSuccess(id) == [type |-> "register-success", id |-> id]
UserList(users) == [type |-> "user-list", users |-> users]
ErrorFrame(msg, about) == [type |-> "error", message |-> msg, about |-> about]

\* ------------------------------------------------------------------- Init
\* The hub once _initialize has run: client is "null" without a mongoURI,
\* "connected" when connect() succeeded, and "unconnected" when it threw
\* and the catch set up the in-memory store.
Ready(client) ==
    /\ clients = << >>
    /\ ws = << >>
    /\ open = {}
    /\ inMemoryMessages = << >>
    /\ now = 0
    /\ sent = << >>
    /\ lastEvent = [kind |-> "init"]
    /\ lastRoster = << >>
    /\ firstFrame = << >>
    /\ inserted = << >>
    /\ effect = [changed |-> {}, inserts |-> 0]
    /\ mongoClient = client
    /\ collection = {}
    /\ pendingInserts = {}
    /\ pendingFinds = EmptyBag
    /\ accepting = TRUE
    /\ awaiting = 0
    /\ sendCallbacks = EmptyBag
    /\ closeCalls = EmptyBag
    /\ outbox = << >>
    /\ received = << >>

Init == Ready("null")

\* --------------------------------------------------------------- observers
\* The frames of `out` addressed to socket w, in send order.
FramesTo(out, w) ==
    LET mine == SelectSeq(out, LAMBDA e : e.to = w)
    IN  [i \in 1..Len(mine) |-> mine[i].frame]

\* A socket that has been sent nothing yet.
NoFrame == [type |-> "none"]

\* Records what the handler of event ev sent (out) once ws' is known.
Emit(ev, out) ==
    /\ sent' = out
    /\ lastEvent' = ev
    /\ lastRoster' =
          [w \in 1..Len(ws') |->
              LET lists == SelectSeq(FramesTo(out, w), LAMBDA f : f.type = "user-list")
              IN  IF w \notin open' THEN << >>
                  ELSE IF Len(lists) > 0 THEN lists[Len(lists)].users
                  ELSE IF w \in DOMAIN lastRoster THEN lastRoster[w] ELSE << >>]
    /\ firstFrame' =
          [w \in 1..Len(ws') |->
              IF w \in DOMAIN firstFrame /\ firstFrame[w] # NoFrame THEN firstFrame[w]
              ELSE IF Len(FramesTo(out, w)) > 0 THEN FramesTo(out, w)[1]
              ELSE NoFrame]
    /\ effect' =
          [changed |-> {n \in {"clients", "ws", "open", "store"} :
                          \/ n = "clients" /\ clients' # clients
                          \/ n = "ws" /\ ws' # ws
                          \/ n = "open" /\ open' # open
                          \/ n = "store" /\ (inMemoryMessages' # inMemoryMessages
                                            \/ collection' # collection)},
           inserts |-> Len(inserted') - Len(inserted)]

\* ------------------------------------------------------ the in-memory store
\* Mutant of insertOne: over the limit, the newest record is dropped.
insertOneDropNewest(store, message) ==
    IF Len(store) >= IN_MEMORY_HISTORY_LIMIT THEN store ELSE Append(store, message)

\* Mutant of insertOne: the array is never shifted.
insertOneUnbounded(store, message) == Append(store, message)

\* insertOne of _setupInMemoryStore: push, then drop the oldest over the limit.
insertOne(store, message) ==
    LET pushed == Append(store, message)
    IN  IF Len(pushed) > IN_MEMORY_HISTORY_LIMIT THEN Tail(pushed) ELSE pushed

\* A record has a recipientId only when it was routed.
HasRecipient(msg) == "recipientId" \in DOMAIN msg

\* Mutant of find: the isBroadcast clause of the filter is lost.
findWithoutBroadcasts(store, recipientId, senderId) ==
    SelectSeq(store, LAMBDA msg :
        \/ msg.senderId = senderId
        \/ ("recipientId" \in DOMAIN msg /\ msg.recipientId = recipientId))

\* Mutant of find: the query's $or clauses are ignored.
findUnfiltered(store, recipientId, senderId) == store

\* find of _setupInMemoryStore for the $or query of get-history; sort and
\* limit of the returned cursor do nothing.
find(store, recipientId, senderId) ==
    SelectSeq(store, LAMBDA msg :
        \/ msg.isBroadcast
        \/ msg.senderId = senderId
        \/ (HasRecipient(msg) /\ msg.recipientId = recipientId))

\* dbMessage of case 'route', with the _id insertOne gives it.
RoutedRecord(senderId, to, payload) ==
    [id |-> now, senderId |-> senderId, recipientId |-> to, payload |-> payload,
     isBroadcast |-> FALSE, timestamp |-> now]

\* Mutant of BroadcastRecord: the record names the sender as its recipient.
BroadcastRecordWithRecipient(senderId, payload) ==
    [id |-> now, senderId |-> senderId, recipientId |-> senderId, payload |-> payload,
     isBroadcast |-> TRUE, timestamp |-> now]

\* dbBroadcastMessage of case 'broadcast', with the _id insertOne gives it.
BroadcastRecord(senderId, payload) ==
    [id |-> now, senderId |-> senderId, payload |-> payload,
     isBroadcast |-> TRUE, timestamp |-> now]

\* Mutant of Persist: the database is used whenever mongoClient is set.
PersistByClient(message) ==
    /\ inserted' = Append(inserted, message)
    /\ now' = now + 1
    /\ UNCHANGED <<mongoClient, collection, pendingFinds>>
    /\ IF mongoClient # "null"
       THEN /\ pendingInserts' = pendingInserts \cup {message}
            /\ inMemoryMessages' = inMemoryMessages
       ELSE /\ inMemoryMessages' = insertOne(inMemoryMessages, message)
            /\ pendingInserts' = pendingInserts

\* this.messagesCollection.insertOne(message). In memory, the body of the
\* async function has no await, so the array changes before the handler
\* goes on; the database settles the promise later.
Persist(message) ==
    /\ inserted' = Append(inserted, message)
    /\ now' = now + 1
    /\ UNCHANGED <<mongoClient, collection, pendingFinds>>
    /\ IF mongoClient = "connected"
       THEN /\ pendingInserts' = pendingInserts \cup {message}
            /\ inMemoryMessages' = inMemoryMessages
       ELSE /\ inMemoryMessages' = insertOne(inMemoryMessages, message)
            /\ pendingInserts' = pendingInserts

NoPersist ==
    UNCHANGED <<inMemoryMessages, inserted, now,
                mongoClient, collection, pendingInserts, pendingFinds>>

\* sort({timestamp: 1}) of the database cursor.
RECURSIVE sortByTimestamp(_)
sortByTimestamp(records) ==
    IF records = {} THEN << >>
    ELSE LET first == CHOOSE r \in records :
                          \A q \in records : r.timestamp <= q.timestamp
         IN  <<first>> \o sortByTimestamp(records \ {first})

\* limit(n) of the database cursor: the first n documents of the sorted result.
limit(sorted, n) == SubSeq(sorted, 1, IF Len(sorted) < n THEN Len(sorted) ELSE n)

\* const historyLimit of case 'get-history'
historyLimit ==
    IF mongoClient # "null" THEN DB_HISTORY_LIMIT ELSE IN_MEMORY_HISTORY_LIMIT

\* find(query).sort({timestamp: 1}).limit(historyLimit).toArray() on the
\* database, answered from the collection as it is when the promise settles.
findInCollection(senderId) ==
    limit(sortByTimestamp({msg \in collection :
                              \/ msg.isBroadcast
                              \/ msg.senderId = senderId
                              \/ (HasRecipient(msg) /\ msg.recipientId = senderId)}),
          historyLimit)

\* ---------------------------------------------------------------- fan-out
\* Mutant of broadcastClientList: each client is sent the list of the others.
broadcastListOfOthers(m) ==
    [i \in 1..Len(m) |->
        Frame(m[i].val, UserList(MapKeys(SelectSeq(m, LAMBDA e : e.key # m[i].key))))]

\* _broadcastClientList
broadcastClientList(m) ==
    [i \in 1..Len(m) |-> Frame(m[i].val, UserList(MapKeys(m)))]

\* Mutant of broadcastToOthers: the sender is not skipped.
broadcastToEveryone(m, senderId, f) ==
    [i \in 1..Len(m) |-> Frame(m[i].val, f)]

\* _broadcastToOthers
broadcastToOthers(m, senderId, f) ==
    LET others == SelectSeq(m, LAMBDA e : e.key # senderId)
    IN  [i \in 1..Len(others) |-> Frame(others[i].val, f)]

\* Mutant of getRoomId: the pair is joined without being sorted.
getRoomIdUnsorted(id1, id2) == <<id1, id2>>

\* Mutant of getRoomId: the room is named after the second identity alone.
getRoomIdOfPartner(id1, id2) == <<id2, id2>>

\* _getRoomId: [id1, id2].sort().join('-')
getRoomId(id1, id2) == IF id1 <= id2 THEN <<id1, id2>> ELSE <<id2, id1>>

\* Mutant of findOtherParticipant: the loop always falls through.
findNoParticipant(m, socks, ownId, roomId) == NoSocket

\* _findOtherParticipant: the first registered socket, in Map order, holding
\* roomId under another identity; NoSocket when the loop falls through.
findOtherParticipant(m, socks, ownId, roomId) ==
    LET hits == SelectSeq(MapValues(m), LAMBDA w :
                    socks[w].roomId = roomId /\ socks[w].clientId # ownId)
    IN  IF Len(hits) > 0 THEN hits[1] ELSE NoSocket

\* Mutant of uuidv4: the generator repeats a token.
uuidRepeated == {MaxConnections + 1}

\* uuidv4(): a token that has not been generated before.  Tokens are numbered
\* in the order they are generated; either party of a pair can be the one
\* that names the other, so both orders of a pair reach getRoomId.
uuidv4 == {MaxConnections + Len(ws) + 1}

\* ------------------------------------------------------------- connections
\* What every handler but shutdown and its callbacks leaves alone.
NoShutdown == UNCHANGED <<accepting, awaiting, sendCallbacks, closeCalls>>

\* Mutant of handleConnection: the roster goes out before register-success.
handleConnectionRosterFirst(clientId) ==
    LET w == Len(ws) + 1
    IN  /\ w \in Sockets
        /\ accepting
        /\ clientId \in uuidv4
        /\ ws' = Append(ws, [clientId |-> clientId, roomId |-> NoRoom])
        /\ clients' = MapSet(clients, clientId, w)
        /\ open' = open \cup {w}
        /\ NoPersist
        /\ NoShutdown
        /\ Emit([kind |-> "connect", ws |-> w],
                broadcastClientList(clients') \o <<Frame(w, RegisterSuccess(clientId))>>)

\* _handleConnection
handleConnection(clientId) ==
    LET w == Len(ws) + 1
    IN  /\ w \in Sockets
        /\ accepting
        /\ clientId \in uuidv4
        /\ ws' = Append(ws, [clientId |-> clientId, roomId |-> NoRoom])
        /\ clients' = MapSet(clients, clientId, w)
        /\ open' = open \cup {w}
        /\ NoPersist
        /\ NoShutdown
        /\ Emit([kind |-> "connect", ws |-> w],
                <<Frame(w, RegisterSuccess(clientId))>> \o broadcastClientList(clients'))

\* Mutant of handleDisconnection: the partner is told but keeps its room id.
handleDisconnectionKeepsRoom(w) ==
    LET clientId == ws[w].clientId
        roomId == ws[w].roomId
        remaining == MapDelete(clients, clientId)
        otherParticipant ==
            IF roomId # NoRoom
            THEN findOtherParticipant(remaining, ws, clientId, roomId)
            ELSE NoSocket
    IN  /\ w \in open
        /\ open' = open \ {w}
        /\ clients' = remaining
        /\ NoShutdown
        /\ ws' = ws
        /\ NoPersist
        /\ Emit([kind |-> "disconnect", ws |-> w, roomId |-> roomId],
                broadcastClientList(remaining)
                \o (IF otherParticipant # NoSocket
                    THEN <<Frame(otherParticipant,
                                 [type |-> "partner-left-room", roomId |-> roomId])>>
                    ELSE << >>)
                \o broadcastToOthers(remaining, clientId,
                                     [type |-> "user-stopped-typing", id |-> clientId]))

\* Mutant of handleDisconnection: no user-stopped-typing is sent.
handleDisconnectionWithoutStopTyping(w) ==
    LET clientId == ws[w].clientId
        roomId == ws[w].roomId
        remaining == MapDelete(clients, clientId)
        otherParticipant ==
            IF roomId # NoRoom
            THEN findOtherParticipant(remaining, ws, clientId, roomId)
            ELSE NoSocket
    IN  /\ w \in open
        /\ open' = open \ {w}
        /\ clients' = remaining
        /\ NoShutdown
        /\ ws' = IF otherParticipant # NoSocket
                 THEN [ws EXCEPT ![otherParticipant].roomId = NoRoom]
                 ELSE ws
        /\ NoPersist
        /\ Emit([kind |-> "disconnect", ws |-> w, roomId |-> roomId],
                broadcastClientList(remaining)
                \o (IF otherParticipant # NoSocket
                    THEN <<Frame(otherParticipant,
                                 [type |-> "partner-left-room", roomId |-> roomId])>>
                    ELSE << >>))

\* Mutant of handleDisconnection: user-stopped-typing is sent first.
handleDisconnectionStopTypingFirst(w) ==
    LET clientId == ws[w].clientId
        roomId == ws[w].roomId
        remaining == MapDelete(clients, clientId)
        otherParticipant ==
            IF roomId # NoRoom
            THEN findOtherParticipant(remaining, ws, clientId, roomId)
            ELSE NoSocket
    IN  /\ w \in open
        /\ open' = open \ {w}
        /\ clients' = remaining
        /\ NoShutdown
        /\ ws' = IF otherParticipant # NoSocket
                 THEN [ws EXCEPT ![otherParticipant].roomId = NoRoom]
                 ELSE ws
        /\ NoPersist
        /\ Emit([kind |-> "disconnect", ws |-> w, roomId |-> roomId],
                broadcastToOthers(remaining, clientId,
                                  [type |-> "user-stopped-typing", id |-> clientId])
                \o broadcastClientList(remaining)
                \o (IF otherParticipant # NoSocket
                    THEN <<Frame(otherParticipant,
                                 [type |-> "partner-left-room", roomId |-> roomId])>>
                    ELSE << >>))

\* _handleDisconnection, run by the close event of socket w
handleDisconnection(w) ==
    LET clientId == ws[w].clientId
        roomId == ws[w].roomId
        remaining == MapDelete(clients, clientId)
        otherParticipant ==
            IF roomId # NoRoom
            THEN findOtherParticipant(remaining, ws, clientId, roomId)
            ELSE NoSocket
    IN  /\ w \in open
        /\ open' = open \ {w}
        /\ clients' = remaining
        /\ NoShutdown
        /\ ws' = IF otherParticipant # NoSocket
                 THEN [ws EXCEPT ![otherParticipant].roomId = NoRoom]
                 ELSE ws
        /\ NoPersist
        /\ Emit([kind |-> "disconnect", ws |-> w, roomId |-> roomId],
                broadcastClientList(remaining)
                \o (IF otherParticipant # NoSocket
                    THEN <<Frame(otherParticipant,
                                 [type |-> "partner-left-room", roomId |-> roomId])>>
                    ELSE << >>)
                \o broadcastToOthers(remaining, clientId,
                                     [type |-> "user-stopped-typing", id |-> clientId]))

\* ---------------------------------------------------------------- shutdown
\* shutdownMessage
ShutdownInfo == [type |-> "info", message |-> "Server is shutting down."]

\* Mutant of Shutdown: the loop runs over every open socket, not over the
\* registry.
ShutdownNotifiesOpen ==
    LET targets == SelectSeq([i \in 1..Len(ws) |-> i], LAMBDA w : w \in open)
    IN  /\ sendCallbacks' = sendCallbacks (+) SetToBag(open)
        /\ clients' = << >>
        /\ IF mongoClient # "null"
           THEN awaiting' = awaiting + 1 /\ accepting' = accepting
           ELSE awaiting' = awaiting /\ accepting' = FALSE
        /\ UNCHANGED <<ws, open, closeCalls>>
        /\ NoPersist
        /\ Emit([kind |-> "shutdown"],
                [i \in 1..Len(targets) |-> Frame(targets[i], ShutdownInfo)])

\* Mutant of Shutdown: this.clients.clear() is left out.
ShutdownWithoutClear ==
    /\ sendCallbacks' = sendCallbacks (+) SetToBag(ValueSet(clients))
    /\ clients' = clients
    /\ IF mongoClient # "null"
       THEN awaiting' = awaiting + 1 /\ accepting' = accepting
       ELSE awaiting' = awaiting /\ accepting' = FALSE
    /\ UNCHANGED <<ws, open, closeCalls>>
    /\ NoPersist
    /\ Emit([kind |-> "shutdown"],
            [i \in 1..Len(clients) |-> Frame(clients[i].val, ShutdownInfo)])

\* shutdown(), up to its await: every registered socket is sent the notice
\* with a callback that will close it, the registry is cleared, and without
\* a mongoClient the function runs on to this.wss.close().
Shutdown ==
    /\ sendCallbacks' = sendCallbacks (+) SetToBag(ValueSet(clients))
    /\ clients' = << >>
    /\ IF mongoClient # "null"
       THEN awaiting' = awaiting + 1 /\ accepting' = accepting
       ELSE awaiting' = awaiting /\ accepting' = FALSE
    /\ UNCHANGED <<ws, open, closeCalls>>
    /\ NoPersist
    /\ Emit([kind |-> "shutdown"],
            [i \in 1..Len(clients) |-> Frame(clients[i].val, ShutdownInfo)])

\* shutdown() after `await this.mongoClient.close()` has resolved:
\* this.wss.close().
ShutdownResume ==
    /\ awaiting > 0
    /\ awaiting' = awaiting - 1
    /\ accepting' = FALSE
    /\ UNCHANGED <<clients, ws, open, sendCallbacks, closeCalls>>
    /\ NoPersist
    /\ Emit([kind |-> "shutdown-resumed"], << >>)

\* The callback of shutdown's send on socket w:
\* clientWs.close(1000, 'Server Shutdown').
CloseAfterSend(w) ==
    /\ BagIn(w, sendCallbacks)
    /\ sendCallbacks' = sendCallbacks (-) SetToBag({w})
    /\ closeCalls' = closeCalls (+) SetToBag({w})
    /\ UNCHANGED <<clients, ws, open, accepting, awaiting>>
    /\ NoPersist
    /\ Emit([kind |-> "send-callback", ws |-> w], << >>)

\* --------------------------------------------------------- inbound frames
\* What a frame handler leaves alone when it only sends.
SendOnly == UNCHANGED <<clients, ws, open>> /\ NoShutdown

\* Mutant of Route: the message goes to every other client.
RouteToEveryone(w, to, payload) ==
    LET senderId == ws[w].clientId
        destinationWs == MapGet(clients, to)
        ev == [kind |-> "route", ws |-> w, to |-> to, payload |-> payload]
    IN  /\ w \in open
        /\ SendOnly
        /\ IF destinationWs # NoSocket
           THEN /\ Persist(RoutedRecord(senderId, to, payload))
                /\ Emit(ev, broadcastToOthers(clients, senderId,
                                              [type |-> "message", from |-> senderId,
                                               payload |-> payload]))
           ELSE /\ NoPersist
                /\ Emit(ev, <<Frame(w, ErrorFrame("Client not found.", to))>>)

\* Mutant of Route: with the database, the forward waits for the insert.
RouteAwaitsStore(w, to, payload) ==
    LET senderId == ws[w].clientId
        destinationWs == MapGet(clients, to)
        ev == [kind |-> "route", ws |-> w, to |-> to, payload |-> payload]
    IN  /\ w \in open
        /\ SendOnly
        /\ IF destinationWs # NoSocket
           THEN /\ Persist(RoutedRecord(senderId, to, payload))
                /\ Emit(ev, IF mongoClient = "connected" THEN << >>
                            ELSE <<Frame(destinationWs,
                                         [type |-> "message", from |-> senderId,
                                          payload |-> payload])>>)
           ELSE /\ NoPersist
                /\ Emit(ev, <<Frame(w, ErrorFrame("Client not found.", to))>>)

\* Mutant of Route: the record is written before the recipient is looked up.
RoutePersistsFirst(w, to, payload) ==
    LET senderId == ws[w].clientId
        destinationWs == MapGet(clients, to)
        ev == [kind |-> "route", ws |-> w, to |-> to, payload |-> payload]
    IN  /\ w \in open
        /\ SendOnly
        /\ Persist(RoutedRecord(senderId, to, payload))
        /\ IF destinationWs # NoSocket
           THEN Emit(ev, <<Frame(destinationWs,
                               [type |-> "message", from |-> senderId,
                                payload |-> payload])>>)
           ELSE Emit(ev, <<Frame(w, ErrorFrame("Client not found.", to))>>)

\* case 'route'
Route(w, to, payload) ==
    LET senderId == ws[w].clientId
        destinationWs == MapGet(clients, to)
        ev == [kind |-> "route", ws |-> w, to |-> to, payload |-> payload]
    IN  /\ w \in open
        /\ SendOnly
        /\ IF destinationWs # NoSocket
           THEN /\ Persist(RoutedRecord(senderId, to, payload))
                /\ Emit(ev, <<Frame(destinationWs,
                                    [type |-> "message", from |-> senderId,
                                     payload |-> payload])>>)
           ELSE /\ NoPersist
                /\ Emit(ev, <<Frame(w, ErrorFrame("Client not found.", to))>>)

\* case 'broadcast'
Broadcast(w, payload) ==
    LET senderId == ws[w].clientId
    IN  /\ w \in open
        /\ SendOnly
        /\ Persist(BroadcastRecord(senderId, payload))
        /\ Emit([kind |-> "broadcast", ws |-> w, payload |-> payload],
                broadcastToOthers(clients, senderId,
                                  [type |-> "message", from |-> senderId,
                                   payload |-> payload, isBroadcast |-> TRUE]))

\* case 'get-history': the reply is sent by the promise callback, which runs
\* before any other event is handled.
GetHistory(w) ==
    LET senderId == ws[w].clientId
        history == find(inMemoryMessages, senderId, senderId)
    IN  /\ w \in open
        /\ SendOnly
        /\ UNCHANGED <<inMemoryMessages, inserted, now,
                       mongoClient, collection, pendingInserts>>
        /\ IF mongoClient = "connected"
           THEN /\ pendingFinds' = pendingFinds (+) SetToBag({w})
                /\ Emit([kind |-> "get-history", ws |-> w], << >>)
           ELSE /\ pendingFinds' = pendingFinds
                /\ Emit([kind |-> "get-history", ws |-> w],
                        <<Frame(w, [type |-> "message-history", history |-> history])>>)

\* The .then of case 'get-history' once the database has answered.
FindResolve(w) ==
    /\ BagIn(w, pendingFinds)
    /\ pendingFinds' = pendingFinds (-) SetToBag({w})
    /\ SendOnly
    /\ UNCHANGED <<inMemoryMessages, inserted, now,
                   mongoClient, collection, pendingInserts>>
    /\ Emit([kind |-> "find-resolved", ws |-> w],
            <<Frame(w, [type |-> "message-history",
                        history |-> findInCollection(ws[w].clientId)])>>)

\* Mutant of FindReject: the query stays pending after the error reply.
FindRejectStaysPending(w) ==
    /\ BagIn(w, pendingFinds)
    /\ SendOnly
    /\ NoPersist
    /\ Emit([kind |-> "find-rejected", ws |-> w],
            <<Frame(w, ErrorFrame("Failed to retrieve message history.", Absent))>>)

\* The .catch of case 'get-history' when the query has failed.
FindReject(w) ==
    /\ BagIn(w, pendingFinds)
    /\ pendingFinds' = pendingFinds (-) SetToBag({w})
    /\ SendOnly
    /\ UNCHANGED <<inMemoryMessages, inserted, now,
                   mongoClient, collection, pendingInserts>>
    /\ Emit([kind |-> "find-rejected", ws |-> w],
            <<Frame(w, ErrorFrame("Failed to retrieve message history.", Absent))>>)

\* The insertOne promise of the database is fulfilled: the document is in
\* the collection; no handler of the hub is attached to this outcome.
InsertResolve(message) ==
    /\ message \in pendingInserts
    /\ pendingInserts' = pendingInserts \ {message}
    /\ collection' = collection \cup {message}
    /\ SendOnly
    /\ UNCHANGED <<inMemoryMessages, inserted, now, mongoClient, pendingFinds>>
    /\ Emit([kind |-> "insert-resolved", record |-> message], << >>)

\* Mutant of InsertReject: the sender of the record is told of the failure.
InsertRejectNotifies(message) ==
    /\ message \in pendingInserts
    /\ pendingInserts' = pendingInserts \ {message}
    /\ SendOnly
    /\ UNCHANGED <<inMemoryMessages, inserted, now, mongoClient, collection,
                   pendingFinds>>
    /\ Emit([kind |-> "insert-rejected", record |-> message],
            IF MapHas(clients, message.senderId)
            THEN <<Frame(MapGet(clients, message.senderId),
                         ErrorFrame("Message not saved.", Absent))>>
            ELSE << >>)

\* The .catch of insertOne in cases 'route' and 'broadcast': the failure is
\* logged.
InsertReject(message) ==
    /\ message \in pendingInserts
    /\ pendingInserts' = pendingInserts \ {message}
    /\ SendOnly
    /\ UNCHANGED <<inMemoryMessages, inserted, now, mongoClient, collection,
                   pendingFinds>>
    /\ Emit([kind |-> "insert-rejected", record |-> message], << >>)

\* Mutant of StartTyping: the sender is sent its own signal too.
StartTypingEcho(w) ==
    LET senderId == ws[w].clientId
    IN  /\ w \in open
        /\ SendOnly
        /\ NoPersist
        /\ Emit([kind |-> "start-typing", ws |-> w],
                [i \in 1..Len(clients) |->
                    Frame(clients[i].val, [type |-> "user-typing", id |-> senderId])])

\* case 'start-typing'
StartTyping(w) ==
    LET senderId == ws[w].clientId
    IN  /\ w \in open
        /\ SendOnly
        /\ NoPersist
        /\ Emit([kind |-> "start-typing", ws |-> w],
                broadcastToOthers(clients, senderId,
                                  [type |-> "user-typing", id |-> senderId]))

\* Mutant of StopTyping: the sender also leaves its room.
StopTypingLeavesRoom(w) ==
    LET senderId == ws[w].clientId
    IN  /\ w \in open
        /\ ws' = [ws EXCEPT ![w].roomId = NoRoom]
        /\ UNCHANGED <<clients, open>>
        /\ NoShutdown
        /\ NoPersist
        /\ Emit([kind |-> "stop-typing", ws |-> w],
                broadcastToOthers(clients, senderId,
                                  [type |-> "user-stopped-typing", id |-> senderId]))

\* case 'stop-typing'
StopTyping(w) ==
    LET senderId == ws[w].clientId
    IN  /\ w \in open
        /\ SendOnly
        /\ NoPersist
        /\ Emit([kind |-> "stop-typing", ws |-> w],
                broadcastToOthers(clients, senderId,
                                  [type |-> "user-stopped-typing", id |-> senderId]))

\* Mutant of JoinRoom: the sender's room id is set before the partner is
\* looked up.
JoinRoomEager(w, partnerId) ==
    LET senderId == ws[w].clientId
        partnerWs == MapGet(clients, partnerId)
        roomId == getRoomId(senderId, partnerId)
        ev == [kind |-> "join-room", ws |-> w, with |-> partnerId]
    IN  /\ w \in open
        /\ UNCHANGED <<clients, open>>
        /\ NoShutdown
        /\ NoPersist
        /\ IF partnerId = Absent \/ partnerId = senderId
           THEN /\ ws' = ws
                /\ Emit(ev, <<Frame(w, ErrorFrame("Invalid partner ID.", Absent))>>)
           ELSE IF partnerWs = NoSocket
           THEN /\ ws' = [ws EXCEPT ![w].roomId = roomId]
                /\ Emit(ev, <<Frame(w, ErrorFrame("User is not online.", partnerId))>>)
           ELSE /\ ws' = [ws EXCEPT ![w].roomId = roomId, ![partnerWs].roomId = roomId]
                /\ Emit(ev, <<Frame(w, [type |-> "joined-room", roomId |-> roomId,
                                        with |-> partnerId]),
                              Frame(partnerWs, [type |-> "joined-room", roomId |-> roomId,
                                                with |-> senderId])>>)

\* Mutant of JoinRoom: the partner's frame repeats the `with` of the
\* inbound frame.
JoinRoomEchoesWith(w, partnerId) ==
    LET senderId == ws[w].clientId
        partnerWs == MapGet(clients, partnerId)
        roomId == getRoomId(senderId, partnerId)
        ev == [kind |-> "join-room", ws |-> w, with |-> partnerId]
    IN  /\ w \in open
        /\ UNCHANGED <<clients, open>>
        /\ NoShutdown
        /\ NoPersist
        /\ IF partnerId = Absent \/ partnerId = senderId
           THEN /\ ws' = ws
                /\ Emit(ev, <<Frame(w, ErrorFrame("Invalid partner ID.", Absent))>>)
           ELSE IF partnerWs = NoSocket
           THEN /\ ws' = ws
                /\ Emit(ev, <<Frame(w, ErrorFrame("User is not online.", partnerId))>>)
           ELSE /\ ws' = [ws EXCEPT ![w].roomId = roomId, ![partnerWs].roomId = roomId]
                /\ Emit(ev, <<Frame(w, [type |-> "joined-room", roomId |-> roomId,
                                        with |-> partnerId]),
                              Frame(partnerWs, [type |-> "joined-room", roomId |-> roomId,
                                                with |-> partnerId])>>)

\* Mutant of JoinRoom: the partner the sender leaves behind is told and its
\* room id is cleared.
JoinRoomLeavesOld(w, partnerId) ==
    LET senderId == ws[w].clientId
        partnerWs == MapGet(clients, partnerId)
        roomId == getRoomId(senderId, partnerId)
        former == IF ws[w].roomId # NoRoom
                  THEN findOtherParticipant(clients, ws, senderId, ws[w].roomId)
                  ELSE NoSocket
        ev == [kind |-> "join-room", ws |-> w, with |-> partnerId]
    IN  /\ w \in open
        /\ UNCHANGED <<clients, open>>
        /\ NoShutdown
        /\ NoPersist
        /\ IF partnerId = Absent \/ partnerId = senderId
           THEN /\ ws' = ws
                /\ Emit(ev, <<Frame(w, ErrorFrame("Invalid partner ID.", Absent))>>)
           ELSE IF partnerWs = NoSocket
           THEN /\ ws' = ws
                /\ Emit(ev, <<Frame(w, ErrorFrame("User is not online.", partnerId))>>)
           ELSE IF former # NoSocket /\ former # partnerWs
           THEN /\ ws' = [ws EXCEPT ![w].roomId = roomId, ![partnerWs].roomId = roomId,
                                    ![former].roomId = NoRoom]
                /\ Emit(ev, <<Frame(former, [type |-> "partner-left-room",
                                             roomId |-> ws[w].roomId]),
                              Frame(w, [type |-> "joined-room", roomId |-> roomId,
                                        with |-> partnerId]),
                              Frame(partnerWs, [type |-> "joined-room", roomId |-> roomId,
                                                with |-> senderId])>>)
           ELSE /\ ws' = [ws EXCEPT ![w].roomId = roomId, ![partnerWs].roomId = roomId]
                /\ Emit(ev, <<Frame(w, [type |-> "joined-room", roomId |-> roomId,
                                        with |-> partnerId]),
                              Frame(partnerWs, [type |-> "joined-room", roomId |-> roomId,
                                                with |-> senderId])>>)

\* case 'join-room'
JoinRoom(w, partnerId) ==
    LET senderId == ws[w].clientId
        partnerWs == MapGet(clients, partnerId)
        roomId == getRoomId(senderId, partnerId)
        ev == [kind |-> "join-room", ws |-> w, with |-> partnerId]
    IN  /\ w \in open
        /\ UNCHANGED <<clients, open>>
        /\ NoShutdown
        /\ NoPersist
        /\ IF partnerId = Absent \/ partnerId = senderId
           THEN /\ ws' = ws
                /\ Emit(ev, <<Frame(w, ErrorFrame("Invalid partner ID.", Absent))>>)
           ELSE IF partnerWs = NoSocket
           THEN /\ ws' = ws
                /\ Emit(ev, <<Frame(w, ErrorFrame("User is not online.", partnerId))>>)
           ELSE /\ ws' = [ws EXCEPT ![w].roomId = roomId, ![partnerWs].roomId = roomId]
                /\ Emit(ev, <<Frame(w, [type |-> "joined-room", roomId |-> roomId,
                                        with |-> partnerId]),
                              Frame(partnerWs, [type |-> "joined-room", roomId |-> roomId,
                                                with |-> senderId])>>)

\* Mutant of RoomMessage: the room message is written to the store.
RoomMessagePersisted(w, payload) ==
    LET senderId == ws[w].clientId
        otherParticipant == findOtherParticipant(clients, ws, senderId, ws[w].roomId)
        ev == [kind |-> "room-message", ws |-> w, payload |-> payload]
    IN  /\ w \in open
        /\ SendOnly
        /\ IF ws[w].roomId = NoRoom
           THEN /\ NoPersist
                /\ Emit(ev, <<Frame(w, ErrorFrame("You are not in a room.", Absent))>>)
           ELSE IF otherParticipant # NoSocket
           THEN /\ Persist(RoutedRecord(senderId, ws[otherParticipant].clientId, payload))
                /\ Emit(ev, <<Frame(otherParticipant,
                                    [type |-> "message", from |-> senderId,
                                     payload |-> payload, isBroadcast |-> FALSE])>>)
           ELSE /\ NoPersist
                /\ Emit(ev, << >>)

\* Mutant of RoomMessage: a sender whose partner is gone is sent an error.
RoomMessageErrorsAlone(w, payload) ==
    LET senderId == ws[w].clientId
        otherParticipant == findOtherParticipant(clients, ws, senderId, ws[w].roomId)
        ev == [kind |-> "room-message", ws |-> w, payload |-> payload]
    IN  /\ w \in open
        /\ SendOnly
        /\ NoPersist
        /\ IF ws[w].roomId = NoRoom \/ otherParticipant = NoSocket
           THEN Emit(ev, <<Frame(w, ErrorFrame("You are not in a room.", Absent))>>)
           ELSE Emit(ev, <<Frame(otherParticipant,
                                [type |-> "message", from |-> senderId,
                                 payload |-> payload, isBroadcast |-> FALSE])>>)

\* case 'room-message'
RoomMessage(w, payload) ==
    LET senderId == ws[w].clientId
        otherParticipant == findOtherParticipant(clients, ws, senderId, ws[w].roomId)
        ev == [kind |-> "room-message", ws |-> w, payload |-> payload]
    IN  /\ w \in open
        /\ SendOnly
        /\ NoPersist
        /\ IF ws[w].roomId = NoRoom
           THEN Emit(ev, <<Frame(w, ErrorFrame("You are not in a room.", Absent))>>)
           ELSE IF otherParticipant # NoSocket
           THEN Emit(ev, <<Frame(otherParticipant,
                                [type |-> "message", from |-> senderId,
                                 payload |-> payload, isBroadcast |-> FALSE])>>)
           ELSE Emit(ev, << >>)

\* Mutant of UnknownType: the reply does not name the type.
UnknownTypeUnnamed(w, type) ==
    /\ w \in open
    /\ SendOnly
    /\ NoPersist
    /\ Emit([kind |-> "unknown", ws |-> w, type |-> type],
            <<Frame(w, ErrorFrame("Unknown message type.", Absent))>>)

\* default: of the switch
UnknownType(w, type) ==
    /\ w \in open
    /\ SendOnly
    /\ NoPersist
    /\ Emit([kind |-> "unknown", ws |-> w, type |-> type],
            <<Frame(w, [type |-> "error", message |-> "Unknown message type.",
                        unknownType |-> type])>>)

\* Mutant of Malformed: the socket is dropped after the error reply.
MalformedCloses(w) ==
    /\ w \in open
    /\ open' = open \ {w}
    /\ UNCHANGED <<clients, ws>>
    /\ NoShutdown
    /\ NoPersist
    /\ Emit([kind |-> "malformed", ws |-> w],
            <<Frame(w, ErrorFrame("Invalid JSON format.", Absent))>>)

\* Mutant of Malformed: the error goes to every registered client.
MalformedToEveryone(w) ==
    /\ w \in open
    /\ SendOnly
    /\ NoPersist
    /\ Emit([kind |-> "malformed", ws |-> w],
            [i \in 1..Len(clients) |->
                Frame(clients[i].val, ErrorFrame("Invalid JSON format.", Absent))])

\* The catch around JSON.parse in the message listener; it also catches the
\* TypeError of the switch on a frame that parses to null.
Malformed(w) ==
    /\ w \in open
    /\ SendOnly
    /\ NoPersist
    /\ Emit([kind |-> "malformed", ws |-> w],
            <<Frame(w, ErrorFrame("Invalid JSON format.", Absent))>>)

\* --------------------------------------------------------------- transport
\* The frames in flight to socket w, none before its first send.
InFlight(w) == IF w \in DOMAIN outbox THEN outbox[w] ELSE << >>
\* The frames the client of socket w has received.
Received(w) == IF w \in DOMAIN received THEN received[w] ELSE << >>

\* The transport is left out: a frame counts as received when it is sent.
Direct == UNCHANGED <<outbox, received>>

\* Mutant of Enqueue: a frame may overtake the frames still in flight to
\* its socket, as a send issued after an await would.
EnqueueAnywhere ==
    /\ received' = received
    /\ \E k \in 0..Len(sent') :
          outbox' = [w \in 1..Len(ws') |->
                        IF Len(FramesTo(sent', w)) > 0 /\ k <= Len(InFlight(w))
                        THEN SubSeq(InFlight(w), 1, k) \o FramesTo(sent', w)
                             \o SubSeq(InFlight(w), k + 1, Len(InFlight(w)))
                        ELSE InFlight(w) \o FramesTo(sent', w)]

\* ws.send(...): each send of the handler that just ran is written to its
\* socket, behind the frames already in flight, in call order.
Enqueue ==
    /\ received' = received
    /\ outbox' = [w \in 1..Len(ws') |-> InFlight(w) \o FramesTo(sent', w)]

\* The client of socket w receives the oldest frame in flight to it.
Receive(w) ==
    /\ Len(InFlight(w)) > 0
    /\ outbox' = [outbox EXCEPT ![w] = Tail(outbox[w])]
    /\ received' = [v \in DOMAIN outbox |->
                       IF v = w THEN Append(Received(v), Head(outbox[w]))
                       ELSE Received(v)]
    /\ UNCHANGED <<clients, ws, open, inMemoryMessages, now, sent, lastEvent,
                   lastRoster, firstFrame, inserted, effect,
                   mongoClient, collection, pendingInserts, pendingFinds,
                   accepting, awaiting, sendCallbacks, closeCalls>>

\* ------------------------------------------------------------ specification
\* The store writes of a run are capped.
InsertsLeft == Len(inserted) < MaxInserts

Next ==
    \/ \E id \in Ids : handleConnection(id) /\ Direct
    \/ \E w \in open : handleDisconnection(w) /\ Direct
    \/ \E w \in open, to \in Targets, p \in Payloads :
          (MapHas(clients, to) => InsertsLeft) /\ Route(w, to, p) /\ Direct
    \/ \E w \in open, p \in Payloads : InsertsLeft /\ Broadcast(w, p) /\ Direct
    \/ \E w \in open : GetHistory(w) /\ Direct
    \/ \E w \in open : StartTyping(w) /\ Direct
    \/ \E w \in open : StopTyping(w) /\ Direct
    \/ \E w \in open, partnerId \in Targets : JoinRoom(w, partnerId) /\ Direct
    \/ \E w \in open, p \in Payloads : RoomMessage(w, p) /\ Direct
    \/ \E w \in open, t \in UnknownTypes : UnknownType(w, t) /\ Direct
    \/ \E w \in open : Malformed(w) /\ Direct

Spec == Init /\ [][Next]_vars

\* The store specification: every connection arrives, then the first
\* client routes to the second and broadcasts, over and over, past the
\* capacity of the in-memory store, and anyone asks for its history.
AllConnected == Len(ws) = MaxConnections /\ open = Sockets
StorePayload == "p"
StoreInsertsLeft == Len(inserted) < MaxStoreInserts

NextStore ==
    \/ \E id \in Ids : handleConnection(id) /\ Direct
    \/ AllConnected /\ StoreInsertsLeft /\ Route(1, ws[2].clientId, StorePayload) /\ Direct
    \/ AllConnected /\ StoreInsertsLeft /\ Broadcast(1, StorePayload) /\ Direct
    \/ \E w \in open : AllConnected /\ GetHistory(w) /\ Direct

SpecStore == Init /\ [][NextStore]_vars

\* The durable specification: the hub is connected to the database, whose
\* inserts and queries settle later, succeed or fail, or stay pending.
InitDurable == Ready("connected")
FindsLeft == BagCardinality(pendingFinds) < MaxFinds

NextDurable ==
    \/ \E id \in Ids : handleConnection(id) /\ Direct
    \/ \E w \in open : handleDisconnection(w) /\ Direct
    \/ \E w \in open, to \in Targets, p \in Payloads :
          (MapHas(clients, to) => InsertsLeft) /\ Route(w, to, p) /\ Direct
    \/ \E w \in open, p \in Payloads : InsertsLeft /\ Broadcast(w, p) /\ Direct
    \/ \E w \in open : FindsLeft /\ GetHistory(w) /\ Direct
    \/ \E w \in open : StartTyping(w) /\ Direct
    \/ \E message \in pendingInserts : InsertResolve(message) /\ Direct
    \/ \E message \in pendingInserts : InsertReject(message) /\ Direct
    \/ \E w \in DOMAIN ws : FindResolve(w) /\ Direct
    \/ \E w \in DOMAIN ws : FindReject(w) /\ Direct

SpecDurable == InitDurable /\ [][NextDurable]_vars

\* The shutdown specification: clients come, pair up, type and go, with or
\* without the database, and shutdown() is called at any moment.
InitShutdown == Ready("null") \/ Ready("connected")
MaySuspend == awaiting < MaxSuspended

NextShutdown ==
    \/ \E id \in Ids : handleConnection(id) /\ Direct
    \/ \E w \in open : handleDisconnection(w) /\ Direct
    \/ \E w \in open : \E partnerId \in KeySet(clients) \ {ws[w].clientId} :
          JoinRoom(w, partnerId) /\ Direct
    \/ \E w \in open : StartTyping(w) /\ Direct
    \/ MaySuspend /\ Shutdown /\ Direct
    \/ ShutdownResume /\ Direct
    \/ \E w \in DOMAIN ws : CloseAfterSend(w) /\ Direct

SpecShutdown == InitShutdown /\ [][NextShutdown]_vars

\* The order specification: every connection arrives, then the first and
\* the third client route numbered messages to the second while the third
\* types, and the clients receive their frames at any later moment.
RoutesLeft == Len(inserted) < MaxRoutes
SignalsLeft ==
    Len(SelectSeq(Received(1) \o InFlight(1), LAMBDA f : f.type = "user-typing"))
        < MaxSignals
NextPayload == Len(inserted) + 1

NextOrder ==
    \/ \E id \in Ids : handleConnection(id) /\ Enqueue
    \/ \E w \in {1, 3} :
          AllConnected /\ RoutesLeft /\ Route(w, ws[2].clientId, NextPayload) /\ Enqueue
    \/ AllConnected /\ SignalsLeft /\ StartTyping(3) /\ Enqueue
    \/ \E w \in DOMAIN ws : Receive(w)

SpecOrder == Init /\ [][NextOrder]_vars

\* The modes specification: the hub has no mongoURI, or one whose
\* connect() failed, or one that connected; the same events reach it.
InitModes == Ready("null") \/ Ready("unconnected") \/ Ready("connected")

NextModes ==
    \/ \E id \in Ids : handleConnection(id) /\ Direct
    \/ \E w \in open : handleDisconnection(w) /\ Direct
    \/ \E w \in open : \E to \in KeySet(clients) :
          InsertsLeft /\ Route(w, to, StorePayload) /\ Direct
    \/ \E w \in open : InsertsLeft /\ Broadcast(w, StorePayload) /\ Direct
    \/ \E w \in open : pendingFinds = EmptyBag /\ GetHistory(w) /\ Direct
    \/ \E w \in open : StartTyping(w) /\ Direct
    \/ \E w \in open : \E partnerId \in KeySet(clients) \ {ws[w].clientId} :
          JoinRoom(w, partnerId) /\ Direct
    \/ \E w \in open : RoomMessage(w, StorePayload) /\ Direct
    \/ \E message \in pendingInserts : InsertResolve(message) /\ Direct
    \/ \E message \in pendingInserts : InsertReject(message) /\ Direct
    \/ \E w \in DOMAIN ws : FindResolve(w) /\ Direct

SpecModes == InitModes /\ [][NextModes]_vars

\* The archive specification: the hub is connected to the database, every
\* connection arrives, and the first client broadcasts, one insert settled
\* before the next, until the collection holds more documents than a
\* history may carry; anyone asks for its history. The first message may
\* be routed to the second client instead.
MaxArchiveInserts == 101
ArchiveInsertsLeft == Len(inserted) < MaxArchiveInserts /\ pendingInserts = {}

NextArchive ==
    \/ \E id \in Ids : handleConnection(id) /\ Direct
    \/ AllConnected /\ inserted = << >> /\ Route(1, ws[2].clientId, StorePayload) /\ Direct
    \/ AllConnected /\ ArchiveInsertsLeft /\ Broadcast(1, StorePayload) /\ Direct
    \/ \E message \in pendingInserts : InsertResolve(message) /\ Direct
    \/ \E w \in open : AllConnected /\ pendingFinds = EmptyBag /\ GetHistory(w) /\ Direct
    \/ \E w \in DOMAIN ws : FindResolve(w) /\ Direct

SpecArchive == InitDurable /\ [][NextArchive]_vars

\* The typing specification: clients come, type, stop typing and go, with
\* or without the database, shutdown() is called at any moment, and every
\* frame sent stays on record in the queue of its socket.
MaxTypingFrames == 2
SentTo(w) == Received(w) \o InFlight(w)
FramesOfType(type) ==
    LET RECURSIVE count(_)
        count(w) == IF w = 0 THEN 0
                    ELSE Len(SelectSeq(SentTo(w), LAMBDA f : f.type = type)) + count(w - 1)
    IN  count(Len(ws))
TypingLeft == FramesOfType("user-typing") < MaxTypingFrames
StopTypingLeft == FramesOfType("user-stopped-typing") < MaxTypingFrames

NextTyping ==
    \/ \E id \in Ids : handleConnection(id) /\ Enqueue
    \/ \E w \in open : handleDisconnection(w) /\ Enqueue
    \/ \E w \in open : TypingLeft /\ StartTyping(w) /\ Enqueue
    \/ \E w \in open : StopTypingLeft /\ StopTyping(w) /\ Enqueue
    \/ awaiting = 0 /\ accepting /\ Shutdown /\ Enqueue
    \/ ShutdownResume /\ Enqueue

SpecTyping == InitShutdown /\ [][NextTyping]_vars

\* The lifecycle specification: every event of the hub without the
\* database, and shutdown() called once, at any moment, after which the
\* sockets it notified go on sending frames until their close events.
NextLifecycle ==
    \/ Next
    \/ accepting /\ Shutdown /\ Direct

SpecLifecycle == Init /\ [][NextLifecycle]_vars

\* The privacy specification: clients come and go, with or without the
\* database; each payload a client sends says whether it is meant for one
\* client or for all, and names its sender and the client it is meant for:
\* the `to` of a route, the other identity of the sender's roomId for a
\* room-message.
MaxPrivateInserts == 1
PrivateInsertsLeft == Len(inserted) < MaxPrivateInserts
DirectPayload(senderId, to) == [kind |-> "direct", from |-> senderId, to |-> to]
PublicPayload(senderId) == [kind |-> "public", from |-> senderId, to |-> Absent]
RoomPayload(w) ==
    LET roomId == ws[w].roomId
        others == {roomId[i] : i \in 1..Len(roomId)} \ {ws[w].clientId}
    IN  [kind |-> "room", from |-> ws[w].clientId,
         to |-> IF others = {} THEN Absent ELSE CHOOSE id \in others : TRUE]

NextPrivacy ==
    \/ \E id \in Ids : handleConnection(id) /\ Direct
    \/ \E w \in open : handleDisconnection(w) /\ Direct
    \/ \E w \in open : \E to \in KeySet(clients) :
          PrivateInsertsLeft /\ Route(w, to, DirectPayload(ws[w].clientId, to)) /\ Direct
    \/ \E w \in open :
          PrivateInsertsLeft /\ Broadcast(w, PublicPayload(ws[w].clientId)) /\ Direct
    \/ \E w \in open : pendingFinds = EmptyBag /\ GetHistory(w) /\ Direct
    \/ \E w \in open : \E partnerId \in KeySet(clients) \ {ws[w].clientId} :
          JoinRoom(w, partnerId) /\ Direct
    \/ \E w \in open : RoomMessage(w, RoomPayload(w)) /\ Direct
    \/ \E message \in pendingInserts : InsertResolve(message) /\ Direct
    \/ \E w \in DOMAIN ws : FindResolve(w) /\ Direct

SpecPrivacy == InitShutdown /\ [][NextPrivacy]_vars

\* The eviction specification: every connection arrives, the third client
\* routes or broadcasts one message, then the first client broadcasts and
\* the second routes to the first, past the capacity of the in-memory
\* store, and anyone asks for its history.
NextEvict ==
    \/ \E id \in Ids : handleConnection(id) /\ Direct
    \/ AllConnected /\ inserted = << >> /\ Route(3, ws[1].clientId, StorePayload) /\ Direct
    \/ AllConnected /\ inserted = << >> /\ Broadcast(3, StorePayload) /\ Direct
    \/ AllConnected /\ inserted # << >> /\ StoreInsertsLeft
          /\ Broadcast(1, StorePayload) /\ Direct
    \/ AllConnected /\ inserted # << >> /\ StoreInsertsLeft
          /\ Route(2, ws[1].clientId, StorePayload) /\ Direct
    \/ \E w \in open : AllConnected /\ GetHistory(w) /\ Direct

SpecEvict == Init /\ [][NextEvict]_vars

\* ================================================================== claims
\* Socket w is a value of the registry under its own identity.
Registered(w) == w \in DOMAIN ws /\ MapGet(clients, ws[w].clientId) = w
RegisteredSockets == {w \in DOMAIN ws : Registered(w)}
IdOf(w) == ws[w].clientId
Range(s) == {s[i] : i \in 1..Len(s)}

\* C1: a route frame from a registered connection A whose `to` names a
\* registered connection B sends exactly one frame in all: the message
\* {from: A's identity, payload} to B.
C1_RouteDelivered ==
    (lastEvent.kind = "route" /\ Registered(lastEvent.ws) /\ MapHas(clients, lastEvent.to))
    => sent = <<Frame(MapGet(clients, lastEvent.to),
                      [type |-> "message", from |-> IdOf(lastEvent.ws),
                       payload |-> lastEvent.payload])>>

\* C1 witness: A routed to another connection B while a third was registered.
C1_Witness ==
    /\ lastEvent.kind = "route"
    /\ Registered(lastEvent.ws)
    /\ MapHas(clients, lastEvent.to)
    /\ lastEvent.to # IdOf(lastEvent.ws)
    /\ Len(clients) = 3
    /\ Len(sent) = 1

\* C2: a broadcast from a registered connection A sends every other
\* registered connection exactly one message frame with from = A's
\* identity, the payload and isBroadcast = true, and sends A nothing.
C2_BroadcastToOthers ==
    (lastEvent.kind = "broadcast" /\ Registered(lastEvent.ws))
    => LET a == lastEvent.ws
           f == [type |-> "message", from |-> IdOf(a),
                 payload |-> lastEvent.payload, isBroadcast |-> TRUE]
       IN  /\ \A w \in RegisteredSockets \ {a} : FramesTo(sent, w) = <<f>>
           /\ FramesTo(sent, a) = << >>
           /\ \A i \in 1..Len(sent) : sent[i].to \in RegisteredSockets \ {a}

\* C2 witness: A broadcast with two other connections registered.
C2_Witness ==
    /\ lastEvent.kind = "broadcast"
    /\ Registered(lastEvent.ws)
    /\ Cardinality(RegisteredSockets) = 3
    /\ Len(sent) = 2

\* C3: in every state, the last user-list frame sent to each registered
\* connection lists exactly the registered identities.
C3_RosterCurrent ==
    \A w \in RegisteredSockets : Range(lastRoster[w]) = KeySet(clients)

\* C3 witness: a disconnect was handled and two connections remain.
C3_Witness ==
    /\ lastEvent.kind = "disconnect"
    /\ Cardinality(RegisteredSockets) = 2
    /\ \A w \in RegisteredSockets : Len(lastRoster[w]) = 2

\* C4: no two connections, live or gone, carry the same identity; every
\* registry key occurs once and maps to the connection carrying it; and the
\* identity of a connection never changes.
C4_IdentityState ==
    /\ \A v, w \in DOMAIN ws : v # w => ws[v].clientId # ws[w].clientId
    /\ \A i, j \in 1..Len(clients) : i # j => clients[i].key # clients[j].key
    /\ \A i \in 1..Len(clients) :
          clients[i].val \in DOMAIN ws /\ ws[clients[i].val].clientId = clients[i].key

C4_IdentityStable ==
    \A w \in DOMAIN ws : w \in DOMAIN ws' /\ ws'[w].clientId = ws[w].clientId

C4_IdentityUnique == [](C4_IdentityState) /\ [][C4_IdentityStable]_vars

\* C4 witness: a connection arrived after an earlier one had gone.
C4_Witness ==
    /\ Len(ws) = 3
    /\ lastEvent.kind = "connect"
    /\ Len(clients) = 2

\* C5: the first frame ever sent to a connection is register-success with
\* its identity, and the connect handler sends it next a user-list that
\* contains that identity.
C5_RegisterFirst ==
    /\ \A w \in DOMAIN ws : firstFrame[w] = RegisterSuccess(IdOf(w))
    /\ lastEvent.kind = "connect"
       => LET mine == FramesTo(sent, lastEvent.ws)
          IN  /\ Len(mine) = 2
              /\ mine[1] = RegisterSuccess(IdOf(lastEvent.ws))
              /\ mine[2].type = "user-list"
              /\ IdOf(lastEvent.ws) \in Range(mine[2].users)

\* C5 witness: a connection arrived while another was registered.
C5_Witness ==
    /\ lastEvent.kind = "connect"
    /\ Len(clients) = 2
    /\ Len(FramesTo(sent, lastEvent.ws)) = 2

\* C6: a join-room from A naming a different registered connection B gives
\* both the same room id, the one either order of the pair computes, and
\* sends joined-room{roomId, with: B} to A and joined-room{roomId, with: A}
\* to B.
C6_JoinRoomSymmetric ==
    (/\ lastEvent.kind = "join-room"
     /\ Registered(lastEvent.ws)
     /\ lastEvent.with # IdOf(lastEvent.ws)
     /\ MapHas(clients, lastEvent.with))
    => LET a == lastEvent.ws
           b == MapGet(clients, lastEvent.with)
           roomId == ws[a].roomId
       IN  /\ roomId # NoRoom
           /\ ws[b].roomId = roomId
           /\ roomId = getRoomId(IdOf(a), IdOf(b))
           /\ roomId = getRoomId(IdOf(b), IdOf(a))
           /\ sent = <<Frame(a, [type |-> "joined-room", roomId |-> roomId,
                                 with |-> IdOf(b)]),
                       Frame(b, [type |-> "joined-room", roomId |-> roomId,
                                 with |-> IdOf(a)])>>

\* C6 witness: the connection with the larger identity joined the one with
\* the smaller identity.
C6_Witness ==
    /\ lastEvent.kind = "join-room"
    /\ Registered(lastEvent.ws)
    /\ MapHas(clients, lastEvent.with)
    /\ lastEvent.with < IdOf(lastEvent.ws)
    /\ Len(sent) = 2

\* The registered connections other than a that hold a's room id.
RoomPartners(a) ==
    {b \in RegisteredSockets \ {a} : ws[a].roomId # NoRoom /\ ws[b].roomId = ws[a].roomId}

\* C7: a room-message from A while a registered B shares A's room id sends
\* one frame in all, the message {from: A, payload, isBroadcast: false} to
\* B, and inserts nothing in the store; and a message-history reply holds
\* only records that were inserted.
C7_RoomStep ==
    (lastEvent'.kind = "room-message" /\ RoomPartners(lastEvent'.ws) # {})
    => /\ \E b \in RoomPartners(lastEvent'.ws) :
            sent' = <<Frame(b, [type |-> "message", from |-> IdOf(lastEvent'.ws),
                               payload |-> lastEvent'.payload,
                               isBroadcast |-> FALSE])>>
       /\ inserted' = inserted
       /\ inMemoryMessages' = inMemoryMessages

C7_HistoryFromStore ==
    lastEvent.kind = "get-history"
    => \A i \in 1..Len(sent) :
          sent[i].frame.type = "message-history"
          => Range(sent[i].frame.history) \subseteq Range(inserted)

C7_RoomMessagePrivate == [][C7_RoomStep]_vars /\ [](C7_HistoryFromStore)

\* C7 witness: a room-message reached the partner while a third connection
\* was registered.
C7_Witness ==
    /\ lastEvent.kind = "room-message"
    /\ RoomPartners(lastEvent.ws) # {}
    /\ Cardinality(RegisteredSockets) = 3
    /\ Len(sent) = 1

\* Frames of a sequence with the given type.
OfType(frames, type) == SelectSeq(frames, LAMBDA f : f.type = type)
AllSent(out) == [i \in 1..Len(out) |-> out[i].frame]

\* C8: when A, holding a room id, disconnects, a registered B that holds
\* the same room id is sent exactly one partner-left-room{roomId} and its
\* room id is cleared; with no such B, nobody is sent partner-left-room.
C8_DisconnectStep ==
    (lastEvent'.kind = "disconnect" /\ ws[lastEvent'.ws].roomId # NoRoom)
    => LET a == lastEvent'.ws
           roomId == ws[a].roomId
       IN  IF RoomPartners(a) # {}
           THEN \A b \in RoomPartners(a) :
                   /\ OfType(FramesTo(sent', b), "partner-left-room")
                        = <<[type |-> "partner-left-room", roomId |-> roomId]>>
                   /\ ws'[b].roomId = NoRoom
           ELSE OfType(AllSent(sent'), "partner-left-room") = << >>

C8_PartnerNotified == [][C8_DisconnectStep]_vars

\* C8 witness: a connection in a room left and its partner was told.
C8_Witness ==
    /\ lastEvent.kind = "disconnect"
    /\ lastEvent.roomId # NoRoom
    /\ Len(OfType(AllSent(sent), "partner-left-room")) = 1

\* The record concerns identity r: r sent it, r received it, or it was
\* broadcast.
Concerns(rec, r) ==
    \/ rec.senderId = r
    \/ ("recipientId" \in DOMAIN rec /\ rec.recipientId = r)
    \/ rec.isBroadcast

\* The message-history reply of the last event.
HistoryReply == sent[1].frame.history

\* C9: the message-history reply to requester R holds exactly the retained
\* records that R sent, that were routed to R, or that were broadcast, in
\* the order of the store; after A routed to B and A broadcast, A's reply
\* holds both records and a third client's reply holds the broadcast only.
C9_HistoryFiltered ==
    lastEvent.kind = "get-history"
    => LET r == IdOf(lastEvent.ws) IN
       /\ Len(sent) = 1
       /\ sent[1].to = lastEvent.ws
       /\ sent[1].frame.type = "message-history"
       /\ HistoryReply = SelectSeq(inMemoryMessages, LAMBDA rec : Concerns(rec, r))
       /\ (/\ Len(inserted) = 2
           /\ ~inserted[1].isBroadcast
           /\ inserted[2].isBroadcast)
          => /\ (r = inserted[1].senderId /\ r = inserted[2].senderId)
                => HistoryReply = inserted
             /\ (r \notin {inserted[1].senderId, inserted[1].recipientId})
                => HistoryReply = <<inserted[2]>>

\* C9 witness: after a routed and a broadcast record, a client that is
\* neither the sender nor the recipient got a history of one record.
C9_Witness ==
    /\ lastEvent.kind = "get-history"
    /\ Len(inserted) = 2
    /\ ~inserted[1].isBroadcast
    /\ IdOf(lastEvent.ws) \notin {inserted[1].senderId, inserted[1].recipientId}
    /\ inserted[2].isBroadcast
    /\ Len(HistoryReply) = 1

\* The last n elements of a sequence.
LastN(s, n) == IF Len(s) <= n THEN s ELSE SubSeq(s, Len(s) - n + 1, Len(s))

\* C10: with the in-memory store, a message-history reply never holds more
\* than 10 records, and every record it holds is among the 10 inserted
\* last.
C10_HistoryBounded ==
    lastEvent.kind = "get-history"
    => /\ Len(HistoryReply) <= IN_MEMORY_HISTORY_LIMIT
       /\ Range(HistoryReply) \subseteq Range(LastN(inserted, IN_MEMORY_HISTORY_LIMIT))

\* C10 witness: more records were inserted than the store keeps, and the
\* sender got a full history.
C10_Witness ==
    /\ lastEvent.kind = "get-history"
    /\ Len(inserted) > IN_MEMORY_HISTORY_LIMIT
    /\ Len(HistoryReply) = IN_MEMORY_HISTORY_LIMIT

\* The record inserted last.
LastInserted == inserted[Len(inserted)]

\* C11: a route to a registered recipient stores exactly one record
\* {senderId, recipientId, payload, isBroadcast: false}, a broadcast stores
\* exactly one {senderId, payload, isBroadcast: true} without recipientId,
\* no other event stores anything, and every record of the store is still
\* the record that was inserted.
C11_OneRecordPerMessage ==
    /\ (lastEvent.kind = "route" /\ MapHas(clients, lastEvent.to))
       => /\ effect.inserts = 1
          /\ LastInserted.senderId = IdOf(lastEvent.ws)
          /\ LastInserted.recipientId = lastEvent.to
          /\ LastInserted.payload = lastEvent.payload
          /\ LastInserted.isBroadcast = FALSE
    /\ lastEvent.kind = "broadcast"
       => /\ effect.inserts = 1
          /\ LastInserted.senderId = IdOf(lastEvent.ws)
          /\ LastInserted.payload = lastEvent.payload
          /\ LastInserted.isBroadcast = TRUE
          /\ "recipientId" \notin DOMAIN LastInserted
    /\ ~(\/ lastEvent.kind = "broadcast"
         \/ (lastEvent.kind = "route" /\ MapHas(clients, lastEvent.to)))
       => effect.inserts = 0 /\ "store" \notin effect.changed
    /\ Range(inMemoryMessages) \subseteq Range(inserted)
    /\ \A i, j \in 1..Len(inserted) : inserted[i].id = inserted[j].id => i = j

\* C11 witness: a broadcast record is in the store and a later event of
\* another kind left it alone.
C11_Witness ==
    /\ Len(inserted) = 1
    /\ inserted[1].isBroadcast
    /\ lastEvent.kind = "join-room"
    /\ inMemoryMessages = inserted

\* C12: a route whose `to` names no registered connection sends one frame
\* in all, an error naming `to` to the sender, and stores nothing.
C12_RouteMiss ==
    (lastEvent.kind = "route" /\ ~MapHas(clients, lastEvent.to))
    => /\ sent = <<Frame(lastEvent.ws, ErrorFrame("Client not found.", lastEvent.to))>>
       /\ effect.inserts = 0
       /\ "store" \notin effect.changed

\* C12 witness: a route named the identity of a connection that has gone,
\* while another connection was registered.
C12_Witness ==
    /\ lastEvent.kind = "route"
    /\ lastEvent.to # Absent
    /\ ~MapHas(clients, lastEvent.to)
    /\ \E w \in DOMAIN ws : ws[w].clientId = lastEvent.to
    /\ Cardinality(RegisteredSockets \ {lastEvent.ws}) >= 1
    /\ Len(sent) = 1

\* The join-room of the last event is one the handler rejects.
JoinRejected ==
    /\ lastEvent.kind = "join-room"
    /\ \/ lastEvent.with = Absent
       \/ lastEvent.with = IdOf(lastEvent.ws)
       \/ ~MapHas(clients, lastEvent.with)

\* C13: a join-room without `with`, naming the sender itself or naming an
\* identity that is not registered sends one frame in all, an error to the
\* sender, and changes no room id and no registry entry.
C13_JoinRejected ==
    JoinRejected
    => /\ Len(sent) = 1
       /\ sent[1].to = lastEvent.ws
       /\ sent[1].frame.type = "error"
       /\ effect.changed = {}

\* C13 witness: a sender that holds a room id named a connection that has
\* gone.
C13_Witness ==
    /\ JoinRejected
    /\ lastEvent.with # Absent
    /\ lastEvent.with # IdOf(lastEvent.ws)
    /\ ws[lastEvent.ws].roomId # NoRoom
    /\ Len(sent) = 1

\* C14: a room-message from a sender without a room id sends one frame in
\* all, an error to the sender; from a sender whose room id no other
\* registered connection holds, it sends nothing at all.
C14_RoomMessageAlone ==
    lastEvent.kind = "room-message"
    => /\ ws[lastEvent.ws].roomId = NoRoom
          => sent = <<Frame(lastEvent.ws, ErrorFrame("You are not in a room.", Absent))>>
       /\ (ws[lastEvent.ws].roomId # NoRoom /\ RoomPartners(lastEvent.ws) = {})
          => sent = << >>

\* C14 witness: the sender holds a room id nobody else holds, and nothing
\* was sent.
C14_Witness ==
    /\ lastEvent.kind = "room-message"
    /\ ws[lastEvent.ws].roomId # NoRoom
    /\ RoomPartners(lastEvent.ws) = {}
    /\ Cardinality(RegisteredSockets) >= 2
    /\ sent = << >>

\* C15: a frame that is not JSON sends one frame in all, an error to its
\* sender, changes nothing and stores nothing; the sender's socket stays
\* open for its later frames.
C15_MalformedFrame ==
    lastEvent.kind = "malformed"
    => /\ sent = <<Frame(lastEvent.ws, ErrorFrame("Invalid JSON format.", Absent))>>
       /\ effect.changed = {}
       /\ effect.inserts = 0
       /\ lastEvent.ws \in open

\* C15 witness: a registered client sent a malformed frame while others
\* were registered.
C15_Witness ==
    /\ lastEvent.kind = "malformed"
    /\ Registered(lastEvent.ws)
    /\ Cardinality(RegisteredSockets) = 3
    /\ Len(sent) = 1

\* C16: a frame of a type the switch does not know sends one frame in all,
\* an error naming the type to the sender, changes nothing and stores
\* nothing.
C16_UnknownType ==
    lastEvent.kind = "unknown"
    => /\ sent = <<Frame(lastEvent.ws,
                         [type |-> "error", message |-> "Unknown message type.",
                          unknownType |-> lastEvent.type])>>
       /\ effect.changed = {}
       /\ effect.inserts = 0

\* C16 witness: a registered client sent a frame of an unknown type while
\* others were registered.
C16_Witness ==
    /\ lastEvent.kind = "unknown"
    /\ Registered(lastEvent.ws)
    /\ Cardinality(RegisteredSockets) = 3
    /\ Len(sent) = 1

\* C17: an error frame goes to the connection whose frame was being
\* handled, it is the only frame that handler sends, and that handler
\* changes no registry entry and no room id.
C17_ErrorsStayLocal ==
    \A i \in 1..Len(sent) :
        sent[i].frame.type = "error"
        => /\ sent[i].to = lastEvent.ws
           /\ Len(sent) = 1
           /\ effect.changed \cap {"clients", "ws"} = {}

\* C17 witness: an error was sent while two other connections were
\* registered, one of them in a room.
C17_Witness ==
    /\ Len(sent) = 1
    /\ sent[1].frame.type = "error"
    /\ Cardinality(RegisteredSockets \ {lastEvent.ws}) = 2
    /\ \E w \in RegisteredSockets \ {lastEvent.ws} : ws[w].roomId # NoRoom

\* The message frame a broadcast of the last event sends.
BroadcastFrame ==
    [type |-> "message", from |-> IdOf(lastEvent.ws),
     payload |-> lastEvent.payload, isBroadcast |-> TRUE]

\* C18: with the database, a route to a registered recipient and a
\* broadcast send their forwards in the handler itself, while the insert
\* is still pending; an insert that fails afterwards sends no frame,
\* changes no registry, socket or room state and leaves no document.
C18_DeliveryIndependent ==
    /\ (lastEvent.kind = "route" /\ MapHas(clients, lastEvent.to))
       => /\ sent = <<Frame(MapGet(clients, lastEvent.to),
                            [type |-> "message", from |-> IdOf(lastEvent.ws),
                             payload |-> lastEvent.payload])>>
          /\ LastInserted \in pendingInserts
          /\ effect.changed = {}
    /\ lastEvent.kind = "broadcast"
       => /\ \A w \in RegisteredSockets \ {lastEvent.ws} :
                FramesTo(sent, w) = <<BroadcastFrame>>
          /\ Len(sent) = Cardinality(RegisteredSockets \ {lastEvent.ws})
          /\ LastInserted \in pendingInserts
          /\ effect.changed = {}
    /\ lastEvent.kind = "insert-rejected"
       => /\ sent = << >>
          /\ effect.changed = {}
          /\ lastEvent.record \notin collection

\* C18 witness: the insert of a routed record failed while its sender and
\* its recipient were registered.
C18_Witness ==
    /\ lastEvent.kind = "insert-rejected"
    /\ ~lastEvent.record.isBroadcast
    /\ MapHas(clients, lastEvent.record.senderId)
    /\ MapHas(clients, lastEvent.record.recipientId)
    /\ lastEvent.record.senderId # lastEvent.record.recipientId
    /\ collection = {}

\* A reply to a get-history: the history, or the error of its .catch.
IsHistoryReply(e) ==
    \/ e.frame.type = "message-history"
    \/ (e.frame.type = "error"
        /\ e.frame.message = "Failed to retrieve message history.")

\* A step sends at most one reply to a get-history, alone, to a socket
\* whose query it settles; queries appear only through get-history.
C19_ReplyStep ==
    LET replies == SelectSeq(sent', IsHistoryReply)
    IN  /\ Len(replies) <= 1
        /\ Len(replies) = 1
           => /\ Len(sent') = 1
              /\ \/ /\ BagIn(sent'[1].to, pendingFinds)
                    /\ pendingFinds' = pendingFinds (-) SetToBag({sent'[1].to})
                 \/ /\ mongoClient # "connected"
                    /\ lastEvent'.kind = "get-history"
                    /\ lastEvent'.ws = sent'[1].to
                    /\ pendingFinds' = pendingFinds
        /\ Len(replies) = 0
           => \/ pendingFinds' = pendingFinds
              \/ /\ lastEvent'.kind = "get-history"
                 /\ pendingFinds' = pendingFinds (+) SetToBag({lastEvent'.ws})

\* A step that handles a route to a registered recipient while queries
\* are pending delivers it.
C19_TrafficStep ==
    (/\ pendingFinds # EmptyBag
     /\ lastEvent'.kind = "route"
     /\ MapHas(clients', lastEvent'.to))
    => sent' = <<Frame(MapGet(clients', lastEvent'.to),
                       [type |-> "message", from |-> ws'[lastEvent'.ws].clientId,
                        payload |-> lastEvent'.payload])>>

\* While queries are pending, every open socket's frames can be handled.
C19_NotBlocked ==
    pendingFinds # EmptyBag
    => \A w \in open :
          /\ ENABLED StartTyping(w)
          /\ ENABLED GetHistory(w)
          /\ \A to \in Targets : ENABLED Route(w, to, StorePayload)

\* C19: a get-history gets at most one reply, the history or the error,
\* never both, sent to the requester only; while a query is pending,
\* however long, frames of every connection are handled and delivered.
C19_OneHistoryReply ==
    /\ [][C19_ReplyStep /\ C19_TrafficStep]_vars
    /\ [](C19_NotBlocked)

\* C19 witness: a route of a requester was delivered to another connection
\* while the requester's own query was pending.
C19_Witness ==
    /\ lastEvent.kind = "route"
    /\ BagIn(lastEvent.ws, pendingFinds)
    /\ Len(sent) = 1
    /\ sent[1].frame.type = "message"
    /\ sent[1].to # lastEvent.ws
    /\ firstFrame[lastEvent.ws].type = "register-success"

\* C20: shutdown() sends every socket registered at that moment exactly
\* one info frame and nothing to anyone else, leaves a callback that will
\* close each of them, and empties the registry; the only thing that
\* callback does is call close on its socket, and nothing else sends the
\* notice or schedules or makes such a close.
C20_ShutdownStep ==
    IF lastEvent'.kind = "shutdown"
    THEN /\ \A w \in RegisteredSockets : FramesTo(sent', w) = <<ShutdownInfo>>
         /\ Len(sent') = Cardinality(RegisteredSockets)
         /\ clients' = << >>
         /\ sendCallbacks' = sendCallbacks (+) SetToBag(RegisteredSockets)
         /\ closeCalls' = closeCalls
    ELSE /\ \A i \in 1..Len(sent') : sent'[i].frame.type # "info"
         /\ (sendCallbacks' (+) closeCalls') = (sendCallbacks (+) closeCalls)
         /\ lastEvent'.kind = "send-callback"
            => closeCalls' = closeCalls (+) SetToBag({lastEvent'.ws})
         /\ lastEvent'.kind # "send-callback" => closeCalls' = closeCalls

C20_ShutdownNotifiesAndCloses == [][C20_ShutdownStep]_vars

\* C20 witness: shutdown() ran with three registered clients, two of them
\* in a room, and the close of every one of them has been called since.
C20_Witness ==
    /\ clients = << >>
    /\ BagToSet(closeCalls) = Sockets
    /\ sendCallbacks = EmptyBag
    /\ open = Sockets
    /\ \E w \in Sockets : ws[w].roomId # NoRoom

\* shutdown() has been called: it is suspended, or the server is closed.
ShutdownInvoked == awaiting > 0 \/ ~accepting

\* The sockets shutdown() has notified so far.
Notified == BagToSet(sendCallbacks) \cup BagToSet(closeCalls)

\* No socket has more than one close callback, pending or run.
C21_AtMostOnce ==
    \A w \in DOMAIN ws : CopiesIn(w, sendCallbacks) + CopiesIn(w, closeCalls) <= 1

\* A call of shutdown() notifies no socket an earlier call has notified,
\* and no socket twice.
C21_ShutdownStep ==
    lastEvent'.kind = "shutdown"
    => /\ \A i \in 1..Len(sent') : sent'[i].to \notin Notified
       /\ \A i, j \in 1..Len(sent') : sent'[i].to = sent'[j].to => i = j

\* C21: however often shutdown() is called, one call after the other or a
\* call while an earlier one is suspended at the close of the database, a
\* socket is sent the notice at most once and has close called at most
\* once, and shutdown() can always be called.
C21_ShutdownTwice ==
    /\ [](C21_AtMostOnce)
    /\ [][C21_ShutdownStep]_vars
    /\ [](ENABLED Shutdown)

\* C21 witness: a second shutdown() was called while the first was
\* suspended, after the sockets the first one notified were closed.
C21_Witness ==
    /\ lastEvent.kind = "shutdown"
    /\ awaiting = 2
    /\ Cardinality(BagToSet(closeCalls)) >= 2
    /\ open # {}

\* C22: once shutdown() has been called the registry is empty, in every
\* later state.
C22_RegistryStaysEmpty == ShutdownInvoked => clients = << >>

\* A close event of a socket whose identity is not in the registry sends
\* nothing and changes neither the registry nor any socket.
C23_AbsentDisconnectStep ==
    (/\ lastEvent'.kind = "disconnect"
     /\ ~MapHas(clients, ws[lastEvent'.ws].clientId))
    => /\ sent' = << >>
       /\ clients' = clients
       /\ ws' = ws

\* C23: the disconnect of a connection whose identity is already absent
\* from the registry is a no-op.
C23_AbsentDisconnectNoOp == [][C23_AbsentDisconnectStep]_vars

\* The join-room of the last event succeeded.
JoinSucceeded ==
    /\ lastEvent.kind = "join-room"
    /\ Len(sent) = 2
    /\ sent[1].frame.type = "joined-room"

\* A successful join-room sends nothing to a socket that is neither its
\* sender nor its partner, and leaves that socket as it was.
C24_JoinStep ==
    JoinSucceeded'
    => \A b \in DOMAIN ws \ {lastEvent'.ws, MapGet(clients, lastEvent'.with)} :
          /\ FramesTo(sent', b) = << >>
          /\ ws'[b] = ws[b]

\* partner-left-room is sent by a disconnect only.
C24_LeftOnlyOnDisconnect ==
    \A i \in 1..Len(sent) :
        sent[i].frame.type = "partner-left-room" => lastEvent.kind = "disconnect"

\* C24: when A, sharing a room with B, joins a room with a third
\* connection C (asked by A or by C), B is sent nothing and keeps the A-B
\* room id; only a disconnect sends partner-left-room.
C24_DisplacedPartnerUntouched ==
    /\ [][C24_JoinStep]_vars
    /\ [](C24_LeftOnlyOnDisconnect)

\* C24 witness: after a successful join-room a third registered socket
\* still holds the room id it shared with the sender or the partner.
C24_Witness ==
    /\ JoinSucceeded
    /\ \E b \in RegisteredSockets \ {sent[1].to, sent[2].to} :
          \E a \in {sent[1].to, sent[2].to} :
             /\ ws[b].roomId = getRoomId(IdOf(a), IdOf(b))
             /\ ws[a].roomId # ws[b].roomId

\* The frames a typing signal of the last event must produce.
TypingSignal(type) ==
    /\ \A w \in RegisteredSockets \ {lastEvent.ws} :
          FramesTo(sent, w) = <<[type |-> type, id |-> IdOf(lastEvent.ws)]>>
    /\ Len(sent) = Cardinality(RegisteredSockets \ {lastEvent.ws})
    /\ effect.changed = {}
    /\ effect.inserts = 0

\* C25: start-typing from A sends user-typing{id: A} to every other
\* registered connection and nothing to A, stop-typing sends
\* user-stopped-typing{id: A} likewise; neither stores a record nor
\* changes the registry, a socket or a room id.
C25_TypingSignals ==
    /\ lastEvent.kind = "start-typing" => TypingSignal("user-typing")
    /\ lastEvent.kind = "stop-typing" => TypingSignal("user-stopped-typing")

\* C25 witness: a typing signal went to two other registered clients
\* while a record was in the store and a room was held.
C25_Witness ==
    /\ lastEvent.kind = "start-typing"
    /\ Len(sent) = 2
    /\ Len(inserted) = 1
    /\ ws[lastEvent.ws].roomId # NoRoom

\* The payloads of the messages from identity a among frames, in order.
PayloadsFrom(frames, a) ==
    LET msgs == SelectSeq(frames, LAMBDA f : f.type = "message" /\ f.from = a)
    IN  [i \in 1..Len(msgs) |-> msgs[i].payload]

\* The payloads of the routes from identity a to identity b, in the order
\* the hub handled them.
PayloadsHandled(a, b) ==
    LET recs == SelectSeq(inserted, LAMBDA r :
                    ~r.isBroadcast /\ r.senderId = a /\ r.recipientId = b)
    IN  [i \in 1..Len(recs) |-> recs[i].payload]

\* C26: what a client has received followed by what is in flight to it is
\* what the hub sent it, in send order: the messages routed from A to B
\* reach B in the order the hub handled A's frames, whatever else is sent
\* in between.
C26_OrderPreserved ==
    \A b \in DOMAIN ws : \A a \in DOMAIN ws :
        PayloadsFrom(Received(b) \o InFlight(b), IdOf(a)) = PayloadsHandled(IdOf(a), IdOf(b))

\* C26 witness: B has received two messages of A with a message of a third
\* client between them, while a later frame is still in flight to B.
C26_Witness ==
    \E i, j, k \in 1..Len(Received(2)) :
        /\ i < j /\ j < k
        /\ Received(2)[i].type = "message" /\ Received(2)[i].from = IdOf(1)
        /\ Received(2)[j].type = "message" /\ Received(2)[j].from = IdOf(3)
        /\ Received(2)[k].type = "message" /\ Received(2)[k].from = IdOf(1)
        /\ Len(InFlight(2)) > 0

\* C27: every message, typing signal and record of a handler carries, as
\* its sender, the identity the hub gave the socket the inbound frame
\* arrived on; the joined-room frame to the partner names that identity,
\* and the one to the requester names the identity of the socket that got
\* the partner's frame.
C27_NoImpersonation ==
    /\ \A i \in 1..Len(sent) :
          LET f == sent[i].frame
          IN  /\ f.type = "message" => f.from = IdOf(lastEvent.ws)
              /\ f.type \in {"user-typing", "user-stopped-typing"}
                 => f.id = IdOf(lastEvent.ws)
              /\ (f.type = "joined-room" /\ sent[i].to # lastEvent.ws)
                 => f.with = IdOf(lastEvent.ws)
              /\ (f.type = "joined-room" /\ sent[i].to = lastEvent.ws)
                 => \E j \in 1..Len(sent) :
                       /\ sent[j].to # lastEvent.ws
                       /\ sent[j].frame.type = "joined-room"
                       /\ f.with = IdOf(sent[j].to)
    /\ effect.inserts > 0 => LastInserted.senderId = IdOf(lastEvent.ws)

\* C27 witness: the second of three clients joined a room with the third
\* after a record was stored.
C27_Witness ==
    /\ lastEvent.kind = "join-room"
    /\ lastEvent.ws = 2
    /\ Len(sent) = 2
    /\ sent[2].to = 3
    /\ sent[2].frame.type = "joined-room"
    /\ Len(inserted) = 1

\* The last event was served by the in-memory store: nothing is pending,
\* the array holds the records inserted last, a routed or broadcast
\* message is stored in its handler and a get-history is answered in its
\* handler, from the array.
InMemoryService ==
    /\ pendingInserts = {}
    /\ pendingFinds = EmptyBag
    /\ collection = {}
    /\ inMemoryMessages = LastN(inserted, IN_MEMORY_HISTORY_LIMIT)
    /\ lastEvent.kind = "connect" => Registered(lastEvent.ws)
    /\ lastEvent.kind = "route"
       => /\ effect.inserts = 1
          /\ sent = <<Frame(MapGet(clients, lastEvent.to),
                            [type |-> "message", from |-> IdOf(lastEvent.ws),
                             payload |-> lastEvent.payload])>>
    /\ lastEvent.kind = "broadcast"
       => /\ effect.inserts = 1
          /\ \A w \in RegisteredSockets \ {lastEvent.ws} :
                FramesTo(sent, w) = <<BroadcastFrame>>
    /\ lastEvent.kind = "get-history"
       => sent = <<Frame(lastEvent.ws,
                         [type |-> "message-history",
                          history |-> find(inMemoryMessages, IdOf(lastEvent.ws),
                                           IdOf(lastEvent.ws))])>>

\* C28: a hub whose connect() failed at startup runs with the in-memory
\* store: it registers connections and serves route, broadcast and
\* get-history by the rule that holds without a connection string.
C28_FallbackServes == mongoClient \in {"null", "unconnected"} => InMemoryService

\* C28 witness: after a failed connect(), a client was sent a history
\* holding a stored record.
C28_Witness ==
    /\ mongoClient = "unconnected"
    /\ lastEvent.kind = "get-history"
    /\ Len(sent) = 1
    /\ Len(sent[1].frame.history) = 1
    /\ Cardinality(RegisteredSockets) = 3

\* What the handler of event ev sends and makes of the registry and the
\* sockets, written without the store.
ExpectedStep(ev) ==
    LET w == ev.ws
        senderId == IF w \in DOMAIN ws THEN ws[w].clientId ELSE Absent
        same(out) == [sent |-> out, clients |-> clients, ws |-> ws]
    IN  CASE ev.kind = "connect" ->
               LET id == MaxConnections + Len(ws) + 1
                   registry == MapSet(clients, id, w)
               IN  [sent |-> <<Frame(w, RegisterSuccess(id))>>
                             \o broadcastClientList(registry),
                    clients |-> registry,
                    ws |-> Append(ws, [clientId |-> id, roomId |-> NoRoom])]
          [] ev.kind = "disconnect" ->
               LET remaining == MapDelete(clients, senderId)
                   other == IF ws[w].roomId # NoRoom
                            THEN findOtherParticipant(remaining, ws, senderId,
                                                      ws[w].roomId)
                            ELSE NoSocket
               IN  [sent |-> broadcastClientList(remaining)
                             \o (IF other # NoSocket
                                 THEN <<Frame(other, [type |-> "partner-left-room",
                                                      roomId |-> ws[w].roomId])>>
                                 ELSE << >>)
                             \o broadcastToOthers(remaining, senderId,
                                     [type |-> "user-stopped-typing", id |-> senderId]),
                    clients |-> remaining,
                    ws |-> IF other # NoSocket
                           THEN [ws EXCEPT ![other].roomId = NoRoom] ELSE ws]
          [] ev.kind = "route" ->
               same(IF MapHas(clients, ev.to)
                    THEN <<Frame(MapGet(clients, ev.to),
                                 [type |-> "message", from |-> senderId,
                                  payload |-> ev.payload])>>
                    ELSE <<Frame(w, ErrorFrame("Client not found.", ev.to))>>)
          [] ev.kind = "broadcast" ->
               same(broadcastToOthers(clients, senderId,
                        [type |-> "message", from |-> senderId,
                         payload |-> ev.payload, isBroadcast |-> TRUE]))
          [] ev.kind = "start-typing" ->
               same(broadcastToOthers(clients, senderId,
                        [type |-> "user-typing", id |-> senderId]))
          [] ev.kind = "join-room" ->
               LET partnerWs == MapGet(clients, ev.with)
                   roomId == getRoomId(senderId, ev.with)
               IN  IF ev.with = Absent \/ ev.with = senderId
                   THEN same(<<Frame(w, ErrorFrame("Invalid partner ID.", Absent))>>)
                   ELSE IF partnerWs = NoSocket
                   THEN same(<<Frame(w, ErrorFrame("User is not online.", ev.with))>>)
                   ELSE [sent |-> <<Frame(w, [type |-> "joined-room", roomId |-> roomId,
                                              with |-> ev.with]),
                                    Frame(partnerWs, [type |-> "joined-room",
                                                      roomId |-> roomId,
                                                      with |-> senderId])>>,
                         clients |-> clients,
                         ws |-> [ws EXCEPT ![w].roomId = roomId,
                                           ![partnerWs].roomId = roomId]]
          [] ev.kind = "room-message" ->
               LET other == findOtherParticipant(clients, ws, senderId, ws[w].roomId)
               IN  same(IF ws[w].roomId = NoRoom
                        THEN <<Frame(w, ErrorFrame("You are not in a room.", Absent))>>
                        ELSE IF other = NoSocket THEN << >>
                        ELSE <<Frame(other, [type |-> "message", from |-> senderId,
                                             payload |-> ev.payload,
                                             isBroadcast |-> FALSE])>>)

\* The events of the hub other than get-history and its replies.
StoreBlindKinds ==
    {"connect", "disconnect", "route", "broadcast", "start-typing", "join-room",
     "room-message"}

\* A step of one of those events sends, and leaves the registry and the
\* sockets, as the event and the registry and sockets before it decide;
\* a settled insert sends nothing and changes none of them.
C29_StoreBlindStep ==
    /\ lastEvent'.kind \in StoreBlindKinds
       => /\ sent' = ExpectedStep(lastEvent').sent
          /\ clients' = ExpectedStep(lastEvent').clients
          /\ ws' = ExpectedStep(lastEvent').ws
    /\ lastEvent'.kind \in {"insert-resolved", "insert-rejected"}
       => /\ sent' = << >>
          /\ UNCHANGED <<clients, ws, open>>

\* C29: for connect, disconnect, route, broadcast, typing, join-room and
\* room-message events the frames sent and the registry and room state
\* that result are the same with the database, with the in-memory store
\* and after a failed connect(), and whether inserts succeed or fail.
C29_StoreBlind == [][C29_StoreBlindStep]_vars

\* C29 witness: with the database, a routed message was delivered, its
\* insert failed, and a room message was delivered afterwards.
C29_Witness ==
    /\ mongoClient = "connected"
    /\ lastEvent.kind = "room-message"
    /\ Len(sent) = 1
    /\ Len(inserted) = 1
    /\ ~inserted[1].isBroadcast
    /\ pendingInserts = {}
    /\ collection = {}

\* C30: the cap chosen for a get-history is the in-memory cap whenever the
\* in-memory store is the one in use, and the database cap only with the
\* database.
C30_CapByStore ==
    lastEvent.kind = "get-history"
    => historyLimit = IF mongoClient = "connected"
                      THEN DB_HISTORY_LIMIT ELSE IN_MEMORY_HISTORY_LIMIT

\* The documents of the collection that concern identity r, oldest first.
MatchingInCollection(r) ==
    sortByTimestamp({rec \in collection : Concerns(rec, r)})

\* C31: with the database, the message-history reply to a requester holds
\* the 100 most recent of the documents that match it, oldest first.
C31_MostRecentKept ==
    lastEvent.kind = "find-resolved"
    => HistoryReply = LastN(MatchingInCollection(IdOf(lastEvent.ws)), DB_HISTORY_LIMIT)

\* C32: a connect sends a user-joined frame carrying the new identity, and
\* a disconnect sends a user-left frame carrying the departed identity.
C32_JoinedAndLeftAnnounced ==
    /\ lastEvent.kind = "connect"
       => \E i \in DOMAIN sent :
             /\ sent[i].frame.type = "user-joined"
             /\ sent[i].frame.id = IdOf(lastEvent.ws)
    /\ lastEvent.kind = "disconnect"
       => (RegisteredSockets # {}
           => \E i \in DOMAIN sent :
                 /\ sent[i].frame.type = "user-left"
                 /\ sent[i].frame.id = IdOf(lastEvent.ws))

\* Socket y was sent user-typing about identity x and no user-stopped-typing
\* about x after it.
ShownTyping(y, x) ==
    \E i \in 1..Len(SentTo(y)) :
        /\ SentTo(y)[i] = [type |-> "user-typing", id |-> x]
        /\ \A j \in (i + 1)..Len(SentTo(y)) :
              SentTo(y)[j] # [type |-> "user-stopped-typing", id |-> x]

\* The sockets whose close event has been handled.
Disconnected == DOMAIN ws \ open

\* C33: no registered connection was sent user-typing about a disconnected
\* identity without being sent user-stopped-typing about it afterwards.
C33_NoStaleTyping ==
    \A y \in RegisteredSockets : \A x \in Disconnected : ~ShownTyping(y, IdOf(x))

\* C33 witness: a client typed and disconnected without a stop-typing, and
\* a client that was sent its signal is still registered.
C33_Witness ==
    /\ lastEvent.kind = "disconnect"
    /\ FramesOfType("user-typing") > 0
    /\ \E y \in RegisteredSockets :
          /\ [type |-> "user-typing", id |-> IdOf(lastEvent.ws)] \in Range(SentTo(y))
          /\ Len(SelectSeq(SentTo(y),
                 LAMBDA f : f = [type |-> "user-stopped-typing",
                                 id |-> IdOf(lastEvent.ws)])) = 1

\* The last event was the close of socket b, and this step is a join-room
\* of socket a naming b's identity.
JoinAfterDisconnect(a, b) ==
    /\ lastEvent.kind = "disconnect"
    /\ lastEvent.ws = b
    /\ lastEvent'.kind = "join-room"
    /\ lastEvent'.ws = a
    /\ lastEvent'.with = IdOf(b)

\* The last event was a join-room of socket a naming b's identity that
\* succeeded, and this step is the close of socket b.
DisconnectAfterJoin(a, b) ==
    /\ JoinSucceeded
    /\ lastEvent.ws = a
    /\ lastEvent.with = IdOf(b)
    /\ lastEvent'.kind = "disconnect"
    /\ lastEvent'.ws = b

\* What both orders of the race bring about.
RaceOutcome(a, b) ==
    /\ JoinAfterDisconnect(a, b)
       => /\ sent' = <<Frame(a, ErrorFrame("User is not online.", IdOf(b)))>>
          /\ ws'[a].roomId = ws[a].roomId
    /\ DisconnectAfterJoin(a, b)
       => /\ FramesTo(sent, a) = <<[type |-> "joined-room",
                                    roomId |-> getRoomId(IdOf(a), IdOf(b)),
                                    with |-> IdOf(b)]>>
          /\ Len(OfType(FramesTo(sent', a), "partner-left-room")) = 1
          /\ ws'[a].roomId = NoRoom

\* After either order a does not hold the room id of a and b.
C34_OriginalStep ==
    \A a, b \in DOMAIN ws :
        /\ RaceOutcome(a, b)
        /\ (JoinAfterDisconnect(a, b) \/ DisconnectAfterJoin(a, b))
           => ws'[a].roomId # getRoomId(IdOf(a), IdOf(b))

C34_AmendedStep ==
    \A a, b \in DOMAIN ws :
        /\ RaceOutcome(a, b)
        /\ DisconnectAfterJoin(a, b) => ws'[a].roomId # getRoomId(IdOf(a), IdOf(b))
        /\ JoinAfterDisconnect(a, b)
           => (ws'[a].roomId = getRoomId(IdOf(a), IdOf(b))
               => lastEvent.roomId # getRoomId(IdOf(a), IdOf(b)))

CanonicalRoomOf(r, id) ==
    /\ Len(r) = 2
    /\ r[1] < r[2]
    /\ id \in {r[1], r[2]}

\* The sockets registered under room id r.
HoldersOf(r) == {w \in RegisteredSockets : ws[w].roomId = r}

\* C35: every registered connection's roomId is none or the canonical room
\* id of two identities, one its own; no more than two registered
\* connections hold the same roomId; and a room-message is forwarded only
\* to the other identity of the sender's roomId.
C35_RoomOfTwo ==
    /\ \A w \in RegisteredSockets :
          ws[w].roomId # NoRoom
          => /\ CanonicalRoomOf(ws[w].roomId, IdOf(w))
             /\ Cardinality(HoldersOf(ws[w].roomId)) <= 2
    /\ lastEvent.kind = "room-message"
       => \A i \in 1..Len(sent) :
             sent[i].frame.type = "message"
             => /\ IdOf(sent[i].to) # IdOf(lastEvent.ws)
                /\ IdOf(sent[i].to) \in Range(ws[lastEvent.ws].roomId)

\* C35 witness: a room-message was forwarded while a third registered
\* connection held another room id of its own.
C35_Witness ==
    /\ lastEvent.kind = "room-message"
    /\ Len(sent) = 1
    /\ sent[1].frame.type = "message"
    /\ \E c \in RegisteredSockets \ {lastEvent.ws, sent[1].to} :
          /\ ws[c].roomId # NoRoom
          /\ ws[c].roomId # ws[lastEvent.ws].roomId

\* The frames whose handlers only send.
SendOnlyKinds ==
    {"route", "broadcast", "get-history", "start-typing", "stop-typing",
     "room-message", "unknown", "malformed"}

\* What a step may do to the registry's keys and to the room ids.
C36_FrameStep ==
    LET w == lastEvent'.ws
        kind == lastEvent'.kind
    IN  /\ kind = "connect"
           => /\ ws'[w].clientId \notin KeySet(clients)
              /\ KeySet(clients') = KeySet(clients) \cup {ws'[w].clientId}
        /\ kind = "disconnect" => KeySet(clients') = KeySet(clients) \ {IdOf(w)}
        /\ kind = "shutdown" => KeySet(clients') = {}
        /\ KeySet(clients') # KeySet(clients)
           => kind \in {"connect", "disconnect", "shutdown"}
        /\ kind \in SendOnlyKinds => (clients' = clients /\ ws' = ws)
        /\ \A v \in DOMAIN ws :
              ws'[v].roomId # ws[v].roomId
              => \/ /\ JoinSucceeded'
                    /\ v \in {w, MapGet(clients, lastEvent'.with)}
                    /\ ws'[v].roomId = getRoomId(IdOf(w), lastEvent'.with)
                 \/ /\ kind = "disconnect"
                    /\ v # w
                    /\ ws[v].roomId = ws[w].roomId
                    /\ ws'[v].roomId = NoRoom

\* C36: the registry's key set changes only on connect (the new identity
\* is added), disconnect (the disconnecting identity is removed) and
\* shutdown (all are removed); route, broadcast, get-history, start-typing,
\* stop-typing, room-message, unknown-type and malformed frames leave the
\* registry and every roomId unchanged; a roomId changes only through a
\* successful join-room, on its sender and partner, or through the
\* disconnect of the connection sharing it, to none.
C36_FrameEffects == [][C36_FrameStep]_vars

\* C36 witness: after shutdown() emptied a registry of three, a socket it
\* notified, still open and in a room, sent a room-message.
C36_Witness ==
    /\ lastEvent.kind = "room-message"
    /\ ~accepting
    /\ clients = << >>
    /\ Cardinality(open) = 3
    /\ ws[lastEvent.ws].roomId # NoRoom

\* The payloads frame f carries, as a message or inside a history.
PayloadsIn(f) ==
    IF f.type = "message" THEN {f.payload}
    ELSE IF f.type = "message-history"
    THEN {f.history[i].payload : i \in 1..Len(f.history)}
    ELSE {}

\* C37: the payload of a route from A to B, or of a room-message from A to
\* its partner B, is sent as a message to B only, and is in a
\* message-history sent to A or B only.
C37_DirectIsPrivate ==
    \A i \in 1..Len(sent) : \A p \in PayloadsIn(sent[i].frame) :
        p.kind # "public"
        => /\ IdOf(sent[i].to) \in {p.from, p.to}
           /\ sent[i].frame.type = "message" => IdOf(sent[i].to) = p.to

\* C37 witness: a client that connected after the sender of a routed
\* message had disconnected was sent an empty history while the store held
\* the message.
C37_Witness ==
    /\ lastEvent.kind \in {"get-history", "find-resolved"}
    /\ Len(sent) = 1
    /\ sent[1].frame.type = "message-history"
    /\ sent[1].frame.history = << >>
    /\ Len(inserted) = 1
    /\ inserted[1].payload.kind = "direct"
    /\ inserted[1].payload.from # inserted[1].payload.to
    /\ inserted[1] \in Range(inMemoryMessages) \cup collection
    /\ \E a \in Disconnected : IdOf(a) = inserted[1].senderId /\ a < lastEvent.ws

\* C38: the in-memory store holds the last min(n, 10) of the n records
\* inserted, in insertion order; a message-history reply is the retained
\* records that concern the requester, in that order; so a record of the
\* requester's own is not in its reply once 10 records were inserted after
\* it, by any client.
C38_StoreKeepsLastTen ==
    /\ inMemoryMessages = LastN(inserted, IN_MEMORY_HISTORY_LIMIT)
    /\ Len(inMemoryMessages) =
          IF Len(inserted) < IN_MEMORY_HISTORY_LIMIT
          THEN Len(inserted) ELSE IN_MEMORY_HISTORY_LIMIT
    /\ lastEvent.kind = "get-history"
       => /\ HistoryReply = SelectSeq(LastN(inserted, IN_MEMORY_HISTORY_LIMIT),
                                      LAMBDA rec : Concerns(rec, IdOf(lastEvent.ws)))
          /\ \A k \in 1..Len(inserted) :
                (/\ inserted[k].senderId = IdOf(lastEvent.ws)
                 /\ Len(inserted) - k >= IN_MEMORY_HISTORY_LIMIT)
                => inserted[k] \notin Range(HistoryReply)

\* C38 witness: the third client's message was followed by 10 of the other
\* clients, and its history holds some of theirs and not its own.
C38_Witness ==
    /\ lastEvent.kind = "get-history"
    /\ lastEvent.ws = 3
    /\ Len(inserted) = IN_MEMORY_HISTORY_LIMIT + 1
    /\ inserted[1].senderId = IdOf(3)
    /\ Len(HistoryReply) \in 1..(IN_MEMORY_HISTORY_LIMIT - 1)
    /\ inserted[1] \notin Range(HistoryReply)

\* The frames a disconnect of socket a sends to socket b, in order.
C39_DisconnectStep ==
    lastEvent'.kind = "disconnect"
    => LET a == lastEvent'.ws
           roster == [type |-> "user-list", users |-> MapKeys(clients')]
           left == [type |-> "partner-left-room", roomId |-> ws[a].roomId]
           stopped == [type |-> "user-stopped-typing", id |-> IdOf(a)]
       IN  /\ IdOf(a) \notin KeySet(clients')
           /\ KeySet(clients') = KeySet(clients) \ {IdOf(a)}
           /\ FramesTo(sent', a) = << >>
           /\ \A b \in RegisteredSockets \ {a} :
                 FramesTo(sent', b) = IF b \in RoomPartners(a)
                                      THEN <<roster, left, stopped>>
                                      ELSE <<roster, stopped>>

\* C39: when A disconnects, a registered B sharing A's roomId is sent the
\* user-list without A, then partner-left-room, then
\* user-stopped-typing{id: A}; every other remaining connection is sent
\* the user-list and then user-stopped-typing{id: A}; A is sent nothing.
C39_DisconnectOrder == [][C39_DisconnectStep]_vars

\* C39 witness: a disconnect sent three frames to the partner and two to a
\* third connection.
C39_Witness ==
    /\ lastEvent.kind = "disconnect"
    /\ lastEvent.roomId # NoRoom
    /\ \E b, c \in RegisteredSockets :
          /\ Len(FramesTo(sent, b)) = 3
          /\ FramesTo(sent, b)[2].type = "partner-left-room"
          /\ Len(FramesTo(sent, c)) = 2
    /\ FramesTo(sent, lastEvent.ws) = << >>

====
